---- MODULE Spec2Model ----
(***************************************************************************)
(* karate-monitor: process orchestration (src/src/process.rs) and request  *)
(* correlation (src/src/correlation.rs, src/src/log_parser.rs).            *)
(*                                                                         *)
(* Nine specifications share the module:                                   *)
(*   Spec        the orchestrator ProcessManager::run with the service and *)
(*               runner processes, their pipes and the reader tasks;       *)
(*   KarateSpec  the same run up to the end of the runner-stdout loop of   *)
(*               run_karate, with a runner that writes batch lines,        *)
(*               failure lines and URLs;                                   *)
(*   CorrSpec    the RequestCorrelator driven by arbitrary call sequences;  *)
(*   SqlSpec     SqlStats (src/src/analysis.rs) driven by arbitrary        *)
(*               sequences of track_query calls;                           *)
(*   SummarySpec TestSummary (src/src/analysis.rs) driven by arbitrary     *)
(*               sequences of update_from_line and track_failure calls;    *)
(*   ApiOutSpec  the service and the reader of its stdout, the service     *)
(*               writing a fixed stream of lines;                          *)
(*   LogSpec     the classification, extraction and filter functions of    *)
(*               src/src/log_parser.rs and src/src/filter.rs, one call on  *)
(*               one input;                                                *)
(*   DrainSpec   the run with a runner that must write a given number of   *)
(*               lines to each of its pipes before it exits, under weak    *)
(*               fairness;                                                 *)
(*   LoopSpec    the run up to the end of the runner-stdout loop, with     *)
(*               batch-marked lines of every kind of text and a history    *)
(*               that keeps each line read whole.                          *)
(*                                                                         *)
(* Strings that the code takes apart (URLs, URIs, runner lines, messages)  *)
(* are sequences of tokens.                                                *)
(* Option<T> is a sequence of length 0 (None) or 1 (Some).                 *)
(***************************************************************************)
EXTENDS Integers, Sequences, FiniteSets, TLC

VARIABLES
    \* ---- RequestCorrelator (correlation.rs:7-16) ----
    correlator,      \* [request_logs, url_to_request_id, seen_urls, last_request_id]
    calls,           \* history: the (raw_json, entry) pairs passed to buffer_api_log since new()/clear()
    cleared,         \* history: the pairs passed to buffer_api_log before the last clear()
    ret,             \* the most recent correlator lookup and what it returned (in a run: displayed)
    \* ---- ProcessManager::run (process.rs) ----
    cfg,             \* Config: health_timeout_secs, failed_only, track_sql
    workload,        \* what the child processes write in this run: their lines, the runner's line count
    pc,              \* position of the orchestrator task inside run / run_karate
    result,          \* what run returned: None, Some(Ok code) or Some(Err)
    probes,          \* readiness probes made so far by wait_for_api
    healthy,         \* a probe has returned Ok(true)
    spawns,          \* [api, runner]: how many times each Command::spawn was called
    api,             \* the service process: state, kill flag, lines it wrote
    apiOut,          \* service stdout pipe: number of lines written and not yet read
    apiErr,          \* service stderr pipe: number of lines written and not yet read
    apiTask,         \* the two spawned reader tasks: [out, err] positions, current line
    apiSeen,         \* history: number of service stdout lines the stdout reader has processed
    runner,          \* the runner process: state, status returned by wait(), lines it wrote
    runOut,          \* runner stdout pipe: number of lines written and not yet read
    runErr,          \* runner stderr pipe: number of lines
    kLine,           \* run_karate's stdout loop: the line being processed, batch_buffer, pending_failure_url
    groups,          \* the batch groups run_karate has printed, in order
    kSeen,           \* history: the runner-stdout lines read, non-batch lines reduced to their category
    locks,           \* owner of each tokio Mutex: [correlator, sql_stats, test_summary]
    sql_stats,       \* SqlStats (analysis.rs:8-15)
    tracked,         \* history: the SqlQuery of each track_query call with SQL present, and whether the call aborted
    test_summary,    \* TestSummary (analysis.rs:145-152)
    summary_calls    \* history: the calls made on the TestSummary, with their arguments

corrVars == <<correlator, calls, cleared, ret>>
orchVars == <<cfg, workload, pc, result, probes, healthy, spawns, api, apiOut, apiErr,
              apiTask, apiSeen, runner, runOut, runErr, kLine, groups, kSeen, locks,
              sql_stats, tracked, test_summary, summary_calls>>
vars == <<correlator, calls, cleared, ret, cfg, workload, pc, result, probes, healthy, spawns,
          api, apiOut, apiErr, apiTask, apiSeen, runner, runOut, runErr, kLine, groups,
          kSeen, locks, sql_stats, tracked, test_summary, summary_calls>>

\* ------------------------------------------------------------------------
\* Option<T>
None == <<>>
Some(v) == <<v>>
Unwrap(o) == o[1]

Min(a, b) == IF a < b THEN a ELSE b
MinOf(S) == CHOOSE x \in S : \A y \in S : x <= y
MaxOf(S) == CHOOSE x \in S : \A y \in S : y <= x

\* ------------------------------------------------------------------------
\* Bounds
MaxCalls == 2            \* buffer_api_log calls in one CorrSpec behaviour
MaxK == 2                \* largest max_logs passed to get_last_request_logs

\* ------------------------------------------------------------------------
\* URLs.  A full URL is a token sequence: an origin token ("http://h"),
\* then the characters of the path, optionally "?" and query tokens,
\* optionally "#" and a fragment.  A service-side URI is the path+query as the
\* service logged it.  No token is a substring of another token, so that
\* str::contains is the containment of one token sequence in another.
Origins == {"http://h", "https://h"}

U_A == <<"/", "a">>
U_AQ == <<"/", "a", "?", "id=1">>

FullUrls ==
    { <<"http://h", "/", "a">>,
      <<"http://h", "/", "a", "?", "id=1">>,
      <<"http://h", "/", "a", "?", "id=1", "#", "top">>,
      <<"http://h">>,
      <<"http://h", "/", "b">>,
      <<"/", "a", "?", "id=1">> }

\* str::contains
contains(hay, needle) ==
    \E i \in 0..(Len(hay) - Len(needle)) : SubSeq(hay, i + 1, i + Len(needle)) = needle

\* index of the first occurrence of token t in s, or Len(s)+1
IndexOf(s, t) ==
    IF \E i \in 1..Len(s) : s[i] = t
    THEN CHOOSE i \in 1..Len(s) : s[i] = t /\ \A j \in 1..(i-1) : s[j] # t
    ELSE Len(s) + 1

\* url::Url::parse(url).ok()? ; path() ; query()   (log_parser.rs:209-218)
extract_path_query(url) ==
    IF url = <<>> \/ Head(url) \notin Origins
    THEN None                                   \* relative URL without a base: parse error
    ELSE LET rest == Tail(url)
             noFrag == SubSeq(rest, 1, IndexOf(rest, "#") - 1)
             q == IndexOf(noFrag, "?")
             rawPath == SubSeq(noFrag, 1, q - 1)
             path == IF rawPath = <<>> THEN <<"/">> ELSE rawPath
         IN IF q <= Len(noFrag)
            THEN Some(path \o <<"?">> \o SubSeq(noFrag, q + 1, Len(noFrag)))
            ELSE Some(path)

\* ------------------------------------------------------------------------
\* ApiLogEntry (log_parser.rs:9-46), the fields the core reads
Entry(id, m, st, u, s) ==
    [request_id |-> id, msg |-> m, status |-> st, uri |-> u, sql |-> s,
     level |-> "INFO", elapsed |-> None, rows_affected |-> None, err |-> None]

is_request_summary_msg_only(entry) == entry.msg = "REQUEST"

\* ApiLogEntry::is_request_summary
is_request_summary(entry) == entry.msg = "REQUEST" /\ entry.status # None

\* ------------------------------------------------------------------------
\* RequestCorrelator
NewCorrelator ==
    [request_logs |-> <<>>, url_to_request_id |-> <<>>,
     seen_urls |-> <<>>, last_request_id |-> None]

\* HashMap::insert
MapInsert(m, k, v) == (k :> v) @@ m

buffer_api_log_first_wins(c, raw_json, entry) ==
    IF entry.request_id = None
    THEN c
    ELSE LET request_id == Unwrap(entry.request_id)
             reg == is_request_summary(entry) /\ entry.uri # None
         IN [request_logs |->
                 IF request_id \in DOMAIN c.request_logs
                 THEN [c.request_logs EXCEPT ![request_id] = Append(@, <<raw_json, entry>>)]
                 ELSE MapInsert(c.request_logs, request_id, << <<raw_json, entry>> >>),
             last_request_id |-> Some(request_id),
             url_to_request_id |->
                 IF reg /\ Unwrap(entry.uri) \notin DOMAIN c.url_to_request_id
                 THEN MapInsert(c.url_to_request_id, Unwrap(entry.uri), request_id)
                 ELSE c.url_to_request_id,
             seen_urls |->
                 IF reg THEN Append(c.seen_urls, <<Unwrap(entry.uri), request_id>>)
                 ELSE c.seen_urls]

buffer_api_log_dedup(c, raw_json, entry) ==
    IF entry.request_id = None
    THEN c
    ELSE LET request_id == Unwrap(entry.request_id)
             reg == is_request_summary(entry) /\ entry.uri # None
         IN [request_logs |->
                 IF request_id \in DOMAIN c.request_logs
                 THEN IF \E i \in 1..Len(c.request_logs[request_id]) :
                            c.request_logs[request_id][i] = <<raw_json, entry>>
                      THEN c.request_logs
                      ELSE [c.request_logs EXCEPT ![request_id] = Append(@, <<raw_json, entry>>)]
                 ELSE MapInsert(c.request_logs, request_id, << <<raw_json, entry>> >>),
             last_request_id |-> Some(request_id),
             url_to_request_id |->
                 IF reg THEN MapInsert(c.url_to_request_id, Unwrap(entry.uri), request_id)
                 ELSE c.url_to_request_id,
             seen_urls |->
                 IF reg THEN Append(c.seen_urls, <<Unwrap(entry.uri), request_id>>)
                 ELSE c.seen_urls]

buffer_api_log_last_on_terminal(c, raw_json, entry) ==
    IF entry.request_id = None
    THEN c
    ELSE LET request_id == Unwrap(entry.request_id)
             reg == is_request_summary(entry) /\ entry.uri # None
         IN [request_logs |->
                 IF request_id \in DOMAIN c.request_logs
                 THEN [c.request_logs EXCEPT ![request_id] = Append(@, <<raw_json, entry>>)]
                 ELSE MapInsert(c.request_logs, request_id, << <<raw_json, entry>> >>),
             last_request_id |->
                 IF is_request_summary(entry) THEN Some(request_id) ELSE c.last_request_id,
             url_to_request_id |->
                 IF reg THEN MapInsert(c.url_to_request_id, Unwrap(entry.uri), request_id)
                 ELSE c.url_to_request_id,
             seen_urls |->
                 IF reg THEN Append(c.seen_urls, <<Unwrap(entry.uri), request_id>>)
                 ELSE c.seen_urls]

\* the record is inserted at the front of its bucket
buffer_api_log_push_front(c, raw_json, entry) ==
    IF entry.request_id = None
    THEN c
    ELSE LET request_id == Unwrap(entry.request_id)
             reg == is_request_summary(entry) /\ entry.uri # None
         IN [request_logs |->
                 IF request_id \in DOMAIN c.request_logs
                 THEN [c.request_logs EXCEPT ![request_id] = << <<raw_json, entry>> >> \o @]
                 ELSE MapInsert(c.request_logs, request_id, << <<raw_json, entry>> >>),
             last_request_id |-> Some(request_id),
             url_to_request_id |->
                 IF reg THEN MapInsert(c.url_to_request_id, Unwrap(entry.uri), request_id)
                 ELSE c.url_to_request_id,
             seen_urls |->
                 IF reg THEN Append(c.seen_urls, <<Unwrap(entry.uri), request_id>>)
                 ELSE c.seen_urls]

\* RequestCorrelator::buffer_api_log
buffer_api_log(c, raw_json, entry) ==
    IF entry.request_id = None
    THEN c
    ELSE LET request_id == Unwrap(entry.request_id)
             reg == is_request_summary(entry) /\ entry.uri # None
         IN [request_logs |->
                 IF request_id \in DOMAIN c.request_logs
                 THEN [c.request_logs EXCEPT ![request_id] = Append(@, <<raw_json, entry>>)]
                 ELSE MapInsert(c.request_logs, request_id, << <<raw_json, entry>> >>),
             last_request_id |-> Some(request_id),
             url_to_request_id |->
                 IF reg THEN MapInsert(c.url_to_request_id, Unwrap(entry.uri), request_id)
                 ELSE c.url_to_request_id,
             seen_urls |->
                 IF reg THEN Append(c.seen_urls, <<Unwrap(entry.uri), request_id>>)
                 ELSE c.seen_urls]

\* RequestCorrelator::get_failed_request_logs: Some(<<request_id, logs>>) or None
get_failed_request_logs(c, full_url) ==
    LET path_query == extract_path_query(full_url)
    IN IF path_query = None THEN None
       ELSE IF Unwrap(path_query) \notin DOMAIN c.url_to_request_id THEN None
       ELSE LET request_id == c.url_to_request_id[Unwrap(path_query)]
            IN IF request_id \in DOMAIN c.request_logs
               THEN Some(<<request_id, c.request_logs[request_id]>>)
               ELSE None

\* the positions of seen_urls that the scan of find_matching_logs_by_url accepts
partial_matches(c, search_path) ==
    { i \in 1..Len(c.seen_urls) :
        /\ \/ contains(c.seen_urls[i][1], search_path)
           \/ contains(search_path, c.seen_urls[i][1])
        /\ c.seen_urls[i][2] \in DOMAIN c.request_logs }

find_matching_logs_by_url_last_match(c, partial_url) ==
    IF get_failed_request_logs(c, partial_url) # None
    THEN get_failed_request_logs(c, partial_url)
    ELSE LET search_path == extract_path_query(partial_url)
         IN IF search_path = None THEN None
            ELSE LET hits == partial_matches(c, Unwrap(search_path))
                 IN IF hits = {} THEN None
                    ELSE LET i == CHOOSE x \in hits : \A y \in hits : y <= x
                             request_id == c.seen_urls[i][2]
                         IN Some(<<request_id, c.request_logs[request_id]>>)

\* RequestCorrelator::find_matching_logs_by_url
find_matching_logs_by_url(c, partial_url) ==
    IF get_failed_request_logs(c, partial_url) # None
    THEN get_failed_request_logs(c, partial_url)
    ELSE LET search_path == extract_path_query(partial_url)
         IN IF search_path = None THEN None
            ELSE LET hits == partial_matches(c, Unwrap(search_path))
                 IN IF hits = {} THEN None
                    ELSE LET i == CHOOSE x \in hits : \A y \in hits : x <= y
                             request_id == c.seen_urls[i][2]
                         IN Some(<<request_id, c.request_logs[request_id]>>)

get_last_request_logs_first(c, max_logs) ==
    IF c.last_request_id = None THEN None
    ELSE LET request_id == Unwrap(c.last_request_id)
         IN IF request_id \notin DOMAIN c.request_logs THEN None
            ELSE LET logs == c.request_logs[request_id]
                 IN Some(<<request_id, SubSeq(logs, 1, Min(max_logs, Len(logs)))>>)

\* RequestCorrelator::get_last_request_logs
get_last_request_logs(c, max_logs) ==
    IF c.last_request_id = None THEN None
    ELSE LET request_id == Unwrap(c.last_request_id)
         IN IF request_id \notin DOMAIN c.request_logs THEN None
            ELSE LET logs == c.request_logs[request_id]
                     \* logs.len().saturating_sub(max_logs)
                     start == IF Len(logs) > max_logs THEN Len(logs) - max_logs ELSE 0
                 IN Some(<<request_id, SubSeq(logs, start + 1, Len(logs))>>)

clear_keeps_buckets(c) ==
    [request_logs |-> c.request_logs, url_to_request_id |-> <<>>,
     seen_urls |-> <<>>, last_request_id |-> None]

\* last_request_id survives the clear
clear_keeps_last(c) ==
    [request_logs |-> <<>>, url_to_request_id |-> <<>>,
     seen_urls |-> <<>>, last_request_id |-> c.last_request_id]

\* RequestCorrelator::clear
clear(c) ==
    [request_logs |-> <<>>, url_to_request_id |-> <<>>,
     seen_urls |-> <<>>, last_request_id |-> None]

\* ------------------------------------------------------------------------
\* SqlStats (analysis.rs)

\* f64: a finite value (whole milliseconds here) or NaN
F64(v) == [nan |-> FALSE, v |-> v]
NaN == [nan |-> TRUE, v |-> 0]

\* f64 +: NaN is absorbing
f64_add(a, b) == IF a.nan \/ b.nan THEN NaN ELSE F64(a.v + b.v)

\* f64::partial_cmp: None when an operand is NaN
partial_cmp(a, b) ==
    IF a.nan \/ b.nan THEN None
    ELSE Some(IF a.v < b.v THEN "Less" ELSE IF a.v > b.v THEN "Greater" ELSE "Equal")

\* the texts str::parse::<f64> accepts, among those used here ("NaN" is one)
Numerals == ("0" :> F64(0)) @@ ("1" :> F64(1)) @@ ("2" :> F64(2)) @@ ("NaN" :> NaN)

\* s.parse::<f64>().ok(), a text being a sequence of tokens: a numeral
\* followed by unit letters
parse_f64(s) ==
    IF Len(s) = 1 /\ s[1] \in DOMAIN Numerals THEN Some(Numerals[s[1]]) ELSE None

\* str::trim_end_matches: the suffix is removed as often as it occurs
RECURSIVE trim_end_matches(_, _)
trim_end_matches(s, pat) ==
    IF Len(pat) <= Len(s) /\ SubSeq(s, Len(s) - Len(pat) + 1, Len(s)) = pat
    THEN trim_end_matches(SubSeq(s, 1, Len(s) - Len(pat)), pat)
    ELSE s

\* parse_elapsed (analysis.rs:269-277)
parse_elapsed(elapsed) ==
    IF elapsed = None THEN F64(0)
    ELSE LET s == trim_end_matches(trim_end_matches(Unwrap(elapsed), <<"m", "s">>), <<"s">>)
             parsed == parse_f64(s)
         IN IF parsed = None THEN F64(0) ELSE Unwrap(parsed)

\* str::to_uppercase on the words used here
to_uppercase(w) ==
    IF w = "select" THEN "SELECT" ELSE IF w = "insert" THEN "INSERT"
    ELSE IF w = "debug" THEN "DEBUG" ELSE IF w = "info" THEN "INFO"
    ELSE IF w = "warn" THEN "WARN" ELSE IF w = "Warning" THEN "WARNING"
    ELSE IF w = "error" THEN "ERROR" ELSE IF w = "all" THEN "ALL"
    ELSE w

query_type_as_written(sql) == IF sql = <<>> THEN "UNKNOWN" ELSE Head(sql)

\* sql.trim().split_whitespace().next().unwrap_or("UNKNOWN").to_uppercase(),
\* an SQL text being the sequence of its words
query_type(sql) == to_uppercase(IF sql = <<>> THEN "UNKNOWN" ELSE Head(sql))

\* SqlStats::new
NewSqlStats ==
    [total_queries |-> 0, queries_by_type |-> <<>>, total_rows_affected |-> 0,
     error_count |-> 0, total_elapsed_ms |-> F64(0), slowest_queries |-> <<>>]

\* slowest_queries.truncate(5)
SlowestKept == 5

\* Vec::truncate
truncate(v, len) == SubSeq(v, 1, Min(Len(v), len))

sort_by_elapsed_desc_unstable(v) ==
    LET ahead(i) == {j \in 1..Len(v) :
                        \/ partial_cmp(v[j].elapsed_ms, v[i].elapsed_ms) = Some("Greater")
                        \/ j > i /\ partial_cmp(v[j].elapsed_ms, v[i].elapsed_ms) = Some("Equal")}
    IN [r \in 1..Len(v) |-> v[CHOOSE i \in 1..Len(v) : Cardinality(ahead(i)) = r - 1]]

\* slice::sort_by(|a, b| b.elapsed_ms.partial_cmp(&a.elapsed_ms).unwrap()) when
\* no comparison fails: a stable sort, largest elapsed_ms first.  An element
\* comes behind the greater ones and behind the equal ones that preceded it
sort_by_elapsed_desc(v) ==
    LET ahead(i) == {j \in 1..Len(v) :
                        \/ partial_cmp(v[j].elapsed_ms, v[i].elapsed_ms) = Some("Greater")
                        \/ j < i /\ partial_cmp(v[j].elapsed_ms, v[i].elapsed_ms) = Some("Equal")}
    IN [r \in 1..Len(v) |-> v[CHOOSE i \in 1..Len(v) : Cardinality(ahead(i)) = r - 1]]

\* partial_cmp(..).unwrap() panics when an operand is NaN.  Sorting compares
\* every element of a slice of two or more with some other element
sort_panics(v) == Len(v) >= 2 /\ \E i \in 1..Len(v) : v[i].elapsed_ms.nan

\* what the slice holds when the comparator panicked.  The order is then
\* unspecified; the standard library's sort of a short slice is an insertion
\* sort that has, when the first comparison with a NaN is made, either sorted
\* the elements before the first NaN (insertion from the left) or the
\* elements behind the last NaN (insertion from the right)
sort_panic_outcomes(v) ==
    LET nans == {i \in 1..Len(v) : v[i].elapsed_ms.nan}
        first == MinOf(nans)
        last == MaxOf(nans)
    IN { sort_by_elapsed_desc(SubSeq(v, 1, first - 1)) \o SubSeq(v, first, Len(v)),
         SubSeq(v, 1, last) \o sort_by_elapsed_desc(SubSeq(v, last + 1, Len(v))) }

\* SqlStats::track_query (analysis.rs:38-78).  The result is the set of
\* outcomes: the statistics after the call, the SqlQuery the call built (if
\* SQL is present) and whether the call panicked.  A panic unwinds out of the
\* call after the new query was pushed and before truncate
track_query(stats, entry) ==
    IF entry.sql = None
    THEN { [stats |-> stats, tracked |-> <<>>, aborted |-> FALSE] }
    ELSE LET sql == Unwrap(entry.sql)
             qt == query_type(sql)
             by_type == stats.queries_by_type
             elapsed == parse_elapsed(entry.elapsed)
             query == [sql |-> sql, elapsed_ms |-> elapsed,
                       rows_affected |-> IF entry.rows_affected = None THEN 0
                                         ELSE Unwrap(entry.rows_affected),
                       uri |-> entry.uri]
             counted ==
                 [stats EXCEPT
                    !.total_queries = @ + 1,
                    !.queries_by_type =
                        IF qt \in DOMAIN by_type THEN [by_type EXCEPT ![qt] = @ + 1]
                        ELSE MapInsert(by_type, qt, 1),
                    !.total_rows_affected =
                        IF entry.rows_affected = None THEN @ ELSE @ + Unwrap(entry.rows_affected),
                    !.error_count =
                        IF entry.err # None \/ entry.level = "ERROR" THEN @ + 1 ELSE @,
                    !.total_elapsed_ms = f64_add(@, elapsed)]
             pushed == Append(stats.slowest_queries, query)
         IN IF sort_panics(pushed)
            THEN { [stats |-> [counted EXCEPT !.slowest_queries = w],
                    tracked |-> <<[query |-> query, aborted |-> TRUE]>>,
                    aborted |-> TRUE] : w \in sort_panic_outcomes(pushed) }
            ELSE { [stats |-> [counted EXCEPT !.slowest_queries =
                                   truncate(sort_by_elapsed_desc(pushed), SlowestKept)],
                    tracked |-> <<[query |-> query, aborted |-> FALSE]>>,
                    aborted |-> FALSE] }

\* ------------------------------------------------------------------------
\* Text of runner lines.  A line is a sequence of atoms: words, digit runs,
\* " " (white space), and the punctuation ":", ",", "|", ".".  The phrases
\* the code searches for are atom sequences, split so that one phrase is
\* contained in another exactly when its text is ("failed features:"
\* contains "failed" and "features:", ".feature:" contains "feature:").
Label ==
    [scenarios |-> <<"scenarios", ":">>,
     passed |-> <<"passed", ":">>,
     failed |-> <<"failed", ":">>,
     status_code_was |-> <<"status code was", ":">>,
     expected |-> <<"expected", ":">>,
     Scenario |-> <<"Scenario", ":">>,
     dot_feature |-> <<".", "feature", ":">>,
     features |-> <<"feature", "s", ":">>,
     skipped |-> <<"skipped", ":">>,
     elapsed |-> <<"elapsed", ":">>,
     failed_features |-> <<"failed", " ", "feature", "s", ":">>,
     url |-> <<"url", ":">>,
     feature |-> <<"feature", ":">>,
     feature_file |-> <<".", "feature">>]

\* str::starts_with
starts_with(s, prefix) == Len(prefix) <= Len(s) /\ SubSeq(s, 1, Len(prefix)) = prefix

\* str::find: the position of the first occurrence, or None
find(hay, needle) ==
    LET at == {i \in 1..(Len(hay) - Len(needle) + 1) : SubSeq(hay, i, i + Len(needle) - 1) = needle}
    IN IF at = {} THEN None ELSE Some(MinOf(at))

\* str::trim_start, str::trim_end, str::trim
RECURSIVE trim_start(_)
trim_start(s) == IF s # <<>> /\ Head(s) = " " THEN trim_start(Tail(s)) ELSE s

trim_end(s) == trim_end_matches(s, <<" ">>)

trim(s) == trim_end(trim_start(s))

\* digit runs: the ones that fit u32, and one that does not
U32Numerals ==
    ("0" :> 0) @@ ("1" :> 1) @@ ("2" :> 2) @@ ("3" :> 3) @@ ("40" :> 40)
DigitRuns == DOMAIN U32Numerals \cup {"99999999999"}

\* str::parse::<u32>().ok() of a text
parse_u32(s) ==
    IF Len(s) = 1 /\ s[1] \in DOMAIN U32Numerals THEN Some(U32Numerals[s[1]]) ELSE None

\* Regex::captures for a pattern that is a sequence of literal atoms, "\s*",
\* ".*", "(\d+)" and "(https?://[^\s,]+)": the capture groups of the match
\* that starts at position i, or None
RECURSIVE regex_match_at(_, _, _)
regex_match_at(s, i, pat) ==
    IF pat = <<>> THEN Some(<<>>)
    ELSE LET p == Head(pat)
             ws == {j \in i..(Len(s) + 1) :
                       /\ \A k \in i..(j - 1) : s[k] = " "
                       /\ j = Len(s) + 1 \/ s[j] # " "}
             url_end == {j \in i..Len(s) :
                            /\ \A k \in i..j : s[k] \notin {" ", ","}
                            /\ j = Len(s) \/ s[j + 1] \in {" ", ","}}
             any == {j \in i..(Len(s) + 1) : regex_match_at(s, j, Tail(pat)) # None}
         IN IF p = "\\s*" THEN regex_match_at(s, MinOf(ws), Tail(pat))
            ELSE IF p = ".*"
            THEN IF any = {} THEN None ELSE regex_match_at(s, MaxOf(any), Tail(pat))
            ELSE IF p = "(\\d+)"
            THEN IF i <= Len(s) /\ s[i] \in DigitRuns
                 THEN LET rest == regex_match_at(s, i + 1, Tail(pat))
                      IN IF rest = None THEN None ELSE Some(<<s[i]>> \o Unwrap(rest))
                 ELSE None
            ELSE IF p = "(https?://[^\\s,]+)"
            THEN IF i <= Len(s) /\ s[i] \in Origins
                 THEN LET rest == regex_match_at(s, MinOf(url_end) + 1, Tail(pat))
                      IN IF rest = None THEN None
                         ELSE Some(<<SubSeq(s, i, MinOf(url_end))>> \o Unwrap(rest))
                 ELSE None
            ELSE IF i <= Len(s) /\ s[i] = p THEN regex_match_at(s, i + 1, Tail(pat))
            ELSE None

\* Regex::captures: the leftmost match
regex_captures(s, pat) ==
    LET at == {i \in 1..(Len(s) + 1) : regex_match_at(s, i, pat) # None}
    IN IF at = {} THEN None ELSE regex_match_at(s, MinOf(at), pat)

\* ------------------------------------------------------------------------
\* Classification and extraction on runner lines (log_parser.rs:155-205)

parse_karate_line_failure_first(line) ==
    LET trimmed == trim(line)
    IN IF contains(trimmed, Label.status_code_was) /\ contains(trimmed, Label.expected)
       THEN "KarateFailure"
       ELSE IF contains(trimmed, Label.scenarios) /\ contains(trimmed, Label.passed)
               /\ contains(trimmed, Label.failed)
       THEN "KarateSummary"
       ELSE IF starts_with(trimmed, Label.Scenario) \/ contains(trimmed, Label.dot_feature)
       THEN IF contains(trimmed, <<"failed">>) THEN "KarateFailure"
            ELSE "KarateScenarioStart"
       ELSE IF starts_with(trimmed, Label.features) \/ starts_with(trimmed, Label.elapsed)
       THEN "KarateSummary"
       ELSE "KarateInfo"

\* parse_karate_line
parse_karate_line(line) ==
    LET trimmed == trim(line)
    IN IF contains(trimmed, Label.scenarios) /\ contains(trimmed, Label.passed)
          /\ contains(trimmed, Label.failed)
       THEN "KarateSummary"
       ELSE IF contains(trimmed, Label.status_code_was) /\ contains(trimmed, Label.expected)
       THEN "KarateFailure"
       ELSE IF starts_with(trimmed, Label.Scenario) \/ contains(trimmed, Label.dot_feature)
       THEN IF contains(trimmed, <<"failed">>) THEN "KarateFailure"
            ELSE "KarateScenarioStart"
       ELSE IF starts_with(trimmed, Label.features) \/ starts_with(trimmed, Label.elapsed)
       THEN "KarateSummary"
       ELSE "KarateInfo"

\* r"scenarios:\s*(\d+)\s*\|\s*passed:\s*(\d+)\s*\|\s*failed:\s*(\d+)"
SummaryPattern ==
    <<"scenarios", ":", "\\s*", "(\\d+)", "\\s*", "|", "\\s*",
      "passed", ":", "\\s*", "(\\d+)", "\\s*", "|", "\\s*",
      "failed", ":", "\\s*", "(\\d+)">>

\* parse_karate_summary: each capture goes through parse::<u32>().ok()?
parse_karate_summary(line) ==
    LET caps == regex_captures(line, SummaryPattern)
    IN IF caps = None THEN None
       ELSE LET n == [i \in 1..3 |-> parse_u32(<<Unwrap(caps)[i]>>)]
            IN IF \E i \in 1..3 : n[i] = None THEN None
               ELSE Some([total_scenarios |-> Unwrap(n[1]), passed |-> Unwrap(n[2]),
                          failed |-> Unwrap(n[3])])

\* r"url:\s*(https?://[^\s,]+)"
UrlPattern == <<"url", ":", "\\s*", "(https?://[^\\s,]+)">>

extract_failure_url_rest_of_line(line) ==
    LET at == find(line, Label.url)
        rest == IF at = None THEN <<>>
                ELSE trim_start(SubSeq(line, Unwrap(at) + 2, Len(line)))
    IN IF rest # <<>> /\ Head(rest) \in Origins THEN Some(rest) ELSE None

\* extract_failure_url
extract_failure_url(line) ==
    LET caps == regex_captures(line, UrlPattern)
    IN IF caps = None THEN None ELSE Some(Unwrap(caps)[1])

\* ------------------------------------------------------------------------
\* TestSummary (analysis.rs:145-212)

\* TestSummary::new
NewTestSummary ==
    [total_features |-> 0, total_scenarios |-> 0, passed |-> 0, failed |-> 0,
     skipped |-> 0, failed_features |-> <<>>]

\* extract_number_after: the digits that follow the label and white space
extract_number_after(label, line) ==
    LET pos == find(line, label)
    IN IF pos = None THEN None
       ELSE LET rest == SubSeq(line, Unwrap(pos) + Len(label), Len(line))
                trimmed == trim_start(rest)
                num_str == IF trimmed # <<>> /\ Head(trimmed) \in DigitRuns
                           THEN <<Head(trimmed)>> ELSE <<>>
            IN parse_u32(num_str)

update_scenarios_accumulating(summary, line) ==
    LET parsed == parse_karate_summary(line)
    IN IF parsed = None THEN summary
       ELSE [summary EXCEPT !.total_scenarios = @ + Unwrap(parsed).total_scenarios,
                            !.passed = @ + Unwrap(parsed).passed,
                            !.failed = @ + Unwrap(parsed).failed]

\* update_from_line, the scenario summary part (analysis.rs:176-182)
update_scenarios(summary, line) ==
    LET parsed == parse_karate_summary(line)
    IN IF parsed = None THEN summary
       ELSE [summary EXCEPT !.total_scenarios = Unwrap(parsed).total_scenarios,
                            !.passed = Unwrap(parsed).passed,
                            !.failed = Unwrap(parsed).failed]

update_features_both_or_none(summary, line) ==
    LET features == extract_number_after(Label.features, line)
        skipped == extract_number_after(Label.skipped, line)
    IN IF contains(line, Label.features) /\ features # None /\ skipped # None
       THEN [summary EXCEPT !.total_features = Unwrap(features), !.skipped = Unwrap(skipped)]
       ELSE summary

\* update_from_line, the feature count part (analysis.rs:184-193)
update_features(summary, line) ==
    LET features == extract_number_after(Label.features, line)
        skipped == extract_number_after(Label.skipped, line)
    IN IF contains(line, Label.features)
       THEN [summary EXCEPT !.total_features = IF features = None THEN @ ELSE Unwrap(features),
                            !.skipped = IF skipped = None THEN @ ELSE Unwrap(skipped)]
       ELSE summary

\* TestSummary::update_from_line
update_from_line(summary, line) == update_features(update_scenarios(summary, line), line)

\* str::rfind(':'): the position of the last ':' or None
rfind_colon(s) ==
    LET at == {i \in 1..Len(s) : s[i] = ":"}
    IN IF at = {} THEN None ELSE Some(MaxOf(at))

track_failure_first_colon(summary, feature, error, url) ==
    LET pos == find(feature, <<":">>)
        split == IF pos = None THEN <<feature, None>>
                 ELSE <<SubSeq(feature, 1, Unwrap(pos) - 1),
                        parse_u32(SubSeq(feature, Unwrap(pos) + 1, Len(feature)))>>
    IN [summary EXCEPT !.failed_features =
           Append(@, [feature_file |-> split[1], line_number |-> split[2],
                      error_message |-> error, url |-> url])]

\* TestSummary::track_failure
track_failure(summary, feature, error, url) ==
    LET pos == rfind_colon(feature)
        split == IF pos = None THEN <<feature, None>>
                 ELSE <<SubSeq(feature, 1, Unwrap(pos) - 1),
                        parse_u32(SubSeq(feature, Unwrap(pos) + 1, Len(feature)))>>
    IN [summary EXCEPT !.failed_features =
           Append(@, [feature_file |-> split[1], line_number |-> split[2],
                      error_message |-> error, url |-> url])]

\* ------------------------------------------------------------------------
\* Classification and filtering of service records (log_parser.rs:48-137,
\* filter.rs)

\* the text of a message: its words, " " between them; a message that is
\* not listed is one word
MsgWords ==
    ("MySQL error" :> <<"My", "SQL", " ", "error">>)
    @@ ("SQL request / response body dump" :> <<"SQL", " ", "request / response body dump">>)
    @@ ("API request / response body dump" :> <<"API", " ", "request / response body dump">>)
    @@ ("REQUEST done" :> <<"REQUEST", " ", "done">>)
    @@ ("health check" :> <<"health", " ", "check">>)
    @@ ("normal request" :> <<"normal", " ", "request">>)

msg_text(msg) == IF msg \in DOMAIN MsgWords THEN MsgWords[msg] ELSE <<msg>>

\* LogLevel, in the order of its declaration (derive(PartialOrd, Ord))
LogLevel == ("Debug" :> 0) @@ ("Info" :> 1) @@ ("Warn" :> 2) @@ ("Error" :> 3)

\* LogLevel::from_str
LogLevel_from_str(s) ==
    LET u == to_uppercase(s)
    IN IF u = "DEBUG" THEN "Debug"
       ELSE IF u = "INFO" THEN "Info"
       ELSE IF u \in {"WARN", "WARNING"} THEN "Warn"
       ELSE IF u = "ERROR" THEN "Error"
       ELSE "Info"

\* ApiLogEntry::log_level
log_level(entry) == LogLevel_from_str(entry.level)

log_type_request_first(entry) ==
    IF entry.msg = "REQUEST" THEN "ApiRequest"
    ELSE IF contains(msg_text(entry.msg), <<"SQL">>) \/ entry.sql # None
    THEN IF entry.level = "ERROR" \/ entry.err # None THEN "ApiError" ELSE "ApiSql"
    ELSE IF contains(msg_text(entry.msg), <<"request / response body dump">>)
    THEN "ApiBodyDump"
    ELSE IF entry.level = "ERROR" THEN "ApiError"
    ELSE "ApiGeneral"

\* ApiLogEntry::log_type
log_type(entry) ==
    IF contains(msg_text(entry.msg), <<"SQL">>) \/ entry.sql # None
    THEN IF entry.level = "ERROR" \/ entry.err # None THEN "ApiError" ELSE "ApiSql"
    ELSE IF contains(msg_text(entry.msg), <<"request / response body dump">>)
    THEN "ApiBodyDump"
    ELSE IF entry.msg = "REQUEST" THEN "ApiRequest"
    ELSE IF entry.level = "ERROR" THEN "ApiError"
    ELSE "ApiGeneral"

\* Regex::new(p).ok(): a pattern with an unclosed group does not compile
Regex_new(p) == IF \E i \in 1..Len(p) : p[i] = "(" THEN None ELSE Some(p)

\* Regex::is_match
is_match(pattern, text) == regex_captures(text, pattern) # None

\* iter().filter_map(|p| Regex::new(p).ok()).collect()
RECURSIVE compile_patterns(_)
compile_patterns(ps) ==
    IF ps = <<>> THEN <<>>
    ELSE Regex_new(Head(ps)) \o compile_patterns(Tail(ps))

\* LogFilter::new
LogFilter_new(level, include, exclude) ==
    LET u == to_uppercase(level)
    IN [level |-> IF u = "DEBUG" THEN Some("Debug")
                  ELSE IF u = "INFO" THEN Some("Info")
                  ELSE IF u = "WARN" THEN Some("Warn")
                  ELSE IF u = "ERROR" THEN Some("Error")
                  ELSE None,
        include_patterns |-> compile_patterns(include),
        exclude_patterns |-> compile_patterns(exclude)]

\* format!("{} {} {} {}", msg, uri, sql, err), an absent field being ""
searchable(entry) ==
    msg_text(entry.msg)
    \o <<" ">> \o (IF entry.uri = None THEN <<>> ELSE Unwrap(entry.uri))
    \o <<" ">> \o (IF entry.sql = None THEN <<>> ELSE Unwrap(entry.sql))
    \o <<" ">> \o (IF entry.err = None THEN <<>> ELSE <<Unwrap(entry.err)>>)

should_include_api_include_first(filter, entry) ==
    IF filter.level # None /\ LogLevel[log_level(entry)] < LogLevel[Unwrap(filter.level)]
    THEN FALSE
    ELSE IF filter.include_patterns # <<>>
    THEN \E i \in 1..Len(filter.include_patterns) :
            is_match(filter.include_patterns[i], searchable(entry))
    ELSE ~\E i \in 1..Len(filter.exclude_patterns) :
            is_match(filter.exclude_patterns[i], searchable(entry))

\* LogFilter::should_include_api
should_include_api(filter, entry) ==
    IF filter.level # None /\ LogLevel[log_level(entry)] < LogLevel[Unwrap(filter.level)]
    THEN FALSE
    ELSE IF \E i \in 1..Len(filter.exclude_patterns) :
               is_match(filter.exclude_patterns[i], searchable(entry))
    THEN FALSE
    ELSE IF filter.include_patterns # <<>>
    THEN \E i \in 1..Len(filter.include_patterns) :
            is_match(filter.include_patterns[i], searchable(entry))
    ELSE TRUE

\* ------------------------------------------------------------------------
\* CorrSpec: the RequestCorrelator under arbitrary call sequences

RequestIds == {"r1", "r2"}
CorrEntries ==
    { Entry(id, m, st, u, None) :
        id \in {None} \cup {Some(r) : r \in RequestIds},
        m \in {"REQUEST", "processing"},
        st \in {None, Some(200)},
        u \in {None, Some(U_A), Some(U_AQ)} }

NoRet == [op |-> "none", arg |-> <<>>, val |-> None]

\* no child process and no caller of the aggregators
NoWorkload ==
    [svcLines |-> {}, svcStream |-> <<>>, runLines |-> {}, runOut |-> 0, runErr |-> 0,
     runMust |-> [out |-> 0, err |-> 0],
     sqlRecords |-> "none", sqlCalls |-> 0, seen |-> "category"]

\* ProcessManager::run has not been called
IdleRun ==
    /\ cfg = [health_timeout_secs |-> 0, failed_only |-> FALSE, track_sql |-> FALSE]
    /\ pc = "idle"
    /\ result = [kind |-> "none", code |-> 0]
    /\ probes = 0
    /\ healthy = FALSE
    /\ spawns = [api |-> 0, runner |-> 0]
    /\ api = [state |-> "none", killed |-> FALSE, outN |-> 0, errN |-> 0]
    /\ apiOut = 0
    /\ apiErr = 0
    /\ apiTask = [out |-> "unspawned", err |-> "unspawned", line |-> None]
    /\ apiSeen = 0
    /\ runner = [state |-> "none", status |-> None, outN |-> 0, errN |-> 0]
    /\ runOut = 0
    /\ runErr = 0
    /\ kLine = [line |-> None, batch_buffer |-> <<>>, pending_failure_url |-> None,
                current_feature |-> None]
    /\ groups = <<>>
    /\ kSeen = <<>>
    /\ locks = [correlator |-> "none", sql_stats |-> "none", test_summary |-> "none"]
    /\ sql_stats = NewSqlStats
    /\ tracked = <<>>
    /\ test_summary = NewTestSummary
    /\ summary_calls = <<>>

\* the orchestrator before run is called
OrchIdle ==
    /\ workload = NoWorkload
    /\ IdleRun

\* RequestCorrelator::new
CorrInit ==
    /\ correlator = NewCorrelator
    /\ calls = <<>>
    /\ cleared = <<>>
    /\ ret = NoRet
    /\ OrchIdle

\* the JSON line that parses to entry
JsonLine(entry) == [text |-> "json", entry |-> Some(entry)]

\* a call of buffer_api_log, as process_api_output makes it: with a line and
\* the entry the line parsed to
BufferApiLog ==
    /\ Len(cleared) + Len(calls) < MaxCalls
    /\ \E entry \in CorrEntries :
          LET raw == JsonLine(entry)
          IN /\ correlator' = buffer_api_log(correlator, raw, entry)
             /\ calls' = Append(calls, <<raw, entry>>)
             /\ ret' = [op |-> "buffer_api_log", arg |-> <<>>, val |-> None]
    /\ UNCHANGED cleared
    /\ UNCHANGED orchVars

\* a call of get_failed_request_logs
GetFailedRequestLogs ==
    /\ \E url \in FullUrls :
          ret' = [op |-> "get_failed_request_logs", arg |-> url,
                  val |-> get_failed_request_logs(correlator, url)]
    /\ UNCHANGED <<correlator, calls, cleared>>
    /\ UNCHANGED orchVars

\* a call of find_matching_logs_by_url
FindMatchingLogsByUrl ==
    /\ \E url \in FullUrls :
          ret' = [op |-> "find_matching_logs_by_url", arg |-> url,
                  val |-> find_matching_logs_by_url(correlator, url)]
    /\ UNCHANGED <<correlator, calls, cleared>>
    /\ UNCHANGED orchVars

\* a call of get_last_request_logs
GetLastRequestLogs ==
    /\ \E k \in 0..MaxK :
          ret' = [op |-> "get_last_request_logs", arg |-> k,
                  val |-> get_last_request_logs(correlator, k)]
    /\ UNCHANGED <<correlator, calls, cleared>>
    /\ UNCHANGED orchVars

\* a call of clear
Clear ==
    /\ calls # <<>>
    /\ correlator' = clear(correlator)
    /\ calls' = <<>>
    /\ cleared' = cleared \o calls
    /\ ret' = [op |-> "clear", arg |-> <<>>, val |-> None]
    /\ UNCHANGED orchVars

CorrNext ==
    \/ BufferApiLog \/ GetFailedRequestLogs \/ FindMatchingLogsByUrl
    \/ GetLastRequestLogs \/ Clear

CorrSpec == CorrInit /\ [][CorrNext]_vars

\* ------------------------------------------------------------------------
\* Properties of the RequestCorrelator, stated over the history `calls`

\* a terminal request-complete record: msg REQUEST with a status
IsTerminal(entry) == entry.msg = "REQUEST" /\ entry.status # None

\* the recorded pairs whose identifier is id, in call order
PairsOf(id) == SelectSeq(calls, LAMBDA p : p[2].request_id = Some(id))

\* positions in calls of the terminal records that carry an identifier and URI u
TerminalsWith(u) ==
    { i \in 1..Len(calls) :
        /\ IsTerminal(calls[i][2])
        /\ calls[i][2].request_id # None
        /\ calls[i][2].uri = Some(u) }

IsUrlLookup == ret.op = "get_failed_request_logs"

\* C8 as claimed: every terminal record (I, U) recorded so far makes the
\* exact lookup of a URL whose path+query is U resolve to I and I's bucket.
C8_ResolvesToEveryTerminalId ==
    IsUrlLookup =>
        \A i \in 1..Len(calls) :
            LET e == calls[i][2]
            IN (/\ IsTerminal(e)
                /\ e.request_id # None
                /\ e.uri # None
                /\ extract_path_query(ret.arg) = e.uri)
               => ret.val = Some(<<Unwrap(e.request_id), PairsOf(Unwrap(e.request_id))>>)

\* C8 (amended): once a terminal record with URI U has been recorded, the
\* exact lookup of every full URL whose path+query equals U succeeds and
\* resolves to the identifier of the most recently recorded terminal record
\* with URI U, returning that identifier's whole bucket.
C8_ResolvesToLatestTerminalId ==
    IsUrlLookup =>
        LET pq == extract_path_query(ret.arg)
        IN (pq # None /\ TerminalsWith(Unwrap(pq)) # {})
           => LET id == Unwrap(calls[MaxOf(TerminalsWith(Unwrap(pq)))][2].request_id)
              IN ret.val = Some(<<id, PairsOf(id)>>)

\* two terminal records register the same URI under different identifiers and
\* the URL is then looked up
C8_Witness ==
    /\ IsUrlLookup
    /\ ret.val # None
    /\ extract_path_query(ret.arg) # None
    /\ \E i, j \in TerminalsWith(Unwrap(extract_path_query(ret.arg))) :
          /\ i < j
          /\ calls[i][2].request_id # calls[j][2].request_id
          /\ ret.val[1][1] = Unwrap(calls[j][2].request_id)

\* C9: while every record recorded with URI U is non-terminal, the exact
\* lookup of every full URL whose path+query is U returns no match, although
\* those records sit in their identifier's bucket.
C9_NoMatchBeforeTerminal ==
    IsUrlLookup =>
        LET pq == extract_path_query(ret.arg)
        IN (pq # None /\ \A i \in 1..Len(calls) :
                            calls[i][2].uri = pq => ~IsTerminal(calls[i][2]))
           => ret.val = None

\* a record with an identifier and URI U is buffered, none with U is terminal,
\* and a URL with path+query U has been looked up
C9_Witness ==
    /\ IsUrlLookup
    /\ ret.val = None
    /\ \E i \in 1..Len(calls) :
          /\ calls[i][2].uri = extract_path_query(ret.arg)
          /\ calls[i][2].uri # None
          /\ calls[i][2].msg = "REQUEST"
          /\ calls[i][2].request_id # None
          /\ Len(correlator.request_logs[Unwrap(calls[i][2].request_id)]) >= 1
    /\ \A i \in 1..Len(calls) :
          calls[i][2].uri = extract_path_query(ret.arg) => ~IsTerminal(calls[i][2])

\* positions in calls of the records that carry an identifier
Identified == { i \in 1..Len(calls) : calls[i][2].request_id # None }

\* C10: get_last_request_logs(k) returns nothing when no identifier has been
\* recorded; otherwise it returns the most recent identifier I with exactly
\* min(k, N) entries, the last min(k, N) of I's N recorded pairs in arrival
\* order.
C10_LastLogs ==
    ret.op = "get_last_request_logs" =>
        IF Identified = {}
        THEN ret.val = None
        ELSE LET id == Unwrap(calls[MaxOf(Identified)][2].request_id)
                 all == PairsOf(id)
                 n == Len(all)
                 m == Min(ret.arg, n)
             IN ret.val = Some(<<id, SubSeq(all, n - m + 1, n)>>)

\* fewer entries are asked for than the identifier has
C10_Witness ==
    /\ ret.op = "get_last_request_logs"
    /\ ret.val # None
    /\ ret.arg >= 1
    /\ Len(ret.val[1][2]) = ret.arg
    /\ Len(PairsOf(ret.val[1][1])) > ret.arg

\* C11: between resets the bucket of every identifier I is exactly the
\* subsequence of the recorded (raw line, record) pairs whose identifier is I,
\* in call order with duplicates kept, and no other bucket exists; as the
\* history only grows at its end, a call appends at the end of one bucket and
\* leaves every existing pair where it was.
C11_BucketIsSubsequence ==
    /\ DOMAIN correlator.request_logs \subseteq RequestIds
    /\ \A id \in RequestIds :
          IF PairsOf(id) = <<>>
          THEN id \notin DOMAIN correlator.request_logs
          ELSE /\ id \in DOMAIN correlator.request_logs
               /\ correlator.request_logs[id] = PairsOf(id)

\* the same line was recorded twice and the bucket holds it twice
C11_Witness ==
    \E id \in DOMAIN correlator.request_logs :
        /\ Len(correlator.request_logs[id]) = 2
        /\ correlator.request_logs[id][1] = correlator.request_logs[id][2]

\* C12: a buffer_api_log call whose record has an identifier sets
\* last_request_id to it, terminal event or not; a call whose record has no
\* identifier leaves the whole correlator (last_request_id, buckets, URL
\* index, seen URLs) unchanged.
C12_LastRequestId ==
    [][ Len(calls') = Len(calls) + 1 =>
            LET e == calls'[Len(calls')][2]
            IN IF e.request_id # None
               THEN correlator'.last_request_id = e.request_id
               ELSE correlator' = correlator ]_vars

\* a non-terminal record with an identifier was recorded, then a record
\* without identifier
C12_Witness ==
    /\ Len(calls) = 2
    /\ calls[1][2].request_id # None
    /\ ~IsTerminal(calls[1][2])
    /\ calls[2][2].request_id = None
    /\ correlator.last_request_id = calls[1][2].request_id

\* positions in calls of the terminal records that carry an identifier and a
\* URI which contains path+query pq or is contained in it
PartialTerminals(pq) ==
    { i \in 1..Len(calls) :
        /\ IsTerminal(calls[i][2])
        /\ calls[i][2].request_id # None
        /\ calls[i][2].uri # None
        /\ \/ contains(Unwrap(calls[i][2].uri), pq)
           \/ contains(pq, Unwrap(calls[i][2].uri)) }

\* C13: find_matching_logs_by_url returns no match for a URL that does not
\* parse; the exact-lookup result when a terminal record with exactly the
\* URL's path+query was recorded; otherwise the bucket of the first recorded
\* terminal record whose URI contains the path+query or is contained in it;
\* and no match when there is no such record.
C13_PartialUrlLookup ==
    ret.op = "find_matching_logs_by_url" =>
        LET pq == extract_path_query(ret.arg)
        IN IF pq = None THEN ret.val = None
           ELSE IF TerminalsWith(Unwrap(pq)) # {}
           THEN LET id == Unwrap(calls[MaxOf(TerminalsWith(Unwrap(pq)))][2].request_id)
                IN ret.val = Some(<<id, PairsOf(id)>>)
           ELSE IF PartialTerminals(Unwrap(pq)) # {}
           THEN LET id == Unwrap(calls[MinOf(PartialTerminals(Unwrap(pq)))][2].request_id)
                IN ret.val = Some(<<id, PairsOf(id)>>)
           ELSE ret.val = None

\* no exact match, two terminal records of different identifiers match
\* partially, and the lookup returned the bucket of the earlier one
C13_Witness ==
    /\ ret.op = "find_matching_logs_by_url"
    /\ extract_path_query(ret.arg) # None
    /\ TerminalsWith(Unwrap(extract_path_query(ret.arg))) = {}
    /\ \E i, j \in PartialTerminals(Unwrap(extract_path_query(ret.arg))) :
          /\ i < j
          /\ calls[i][2].request_id # calls[j][2].request_id
          /\ ret.val = Some(<<Unwrap(calls[i][2].request_id),
                              PairsOf(Unwrap(calls[i][2].request_id))>>)

IsLookup ==
    ret.op \in {"get_failed_request_logs", "find_matching_logs_by_url",
                "get_last_request_logs"}

\* C14: after clear() the correlator has no buckets, an empty URL index, an
\* empty seen-URL list and no last_request_id; every lookup returns no match
\* until a record with an identifier is recorded again; and what a lookup
\* returns afterwards consists only of pairs recorded after the reset.
C14_ClearForgets ==
    /\ calls = <<>> =>
          /\ correlator.request_logs = <<>>
          /\ correlator.url_to_request_id = <<>>
          /\ correlator.seen_urls = <<>>
          /\ correlator.last_request_id = None
    /\ (IsLookup /\ Identified = {}) => ret.val = None
    /\ (IsLookup /\ ret.val # None) =>
          LET all == PairsOf(ret.val[1][1])
              got == ret.val[1][2]
          IN /\ Len(got) <= Len(all)
             /\ got = SubSeq(all, Len(all) - Len(got) + 1, Len(all))

\* an identifier recorded before the reset is recorded again after it, and a
\* lookup returns its bucket with the one new pair only
C14_Witness ==
    /\ IsLookup
    /\ ret.val # None
    /\ Len(ret.val[1][2]) = 1
    /\ \E i \in 1..Len(cleared) : cleared[i][2].request_id = Some(ret.val[1][1])

\* ------------------------------------------------------------------------
\* Spec: ProcessManager::run with the service process, the runner process,
\* their pipes and the reader tasks

\* Bounds
MaxHealthTimeout == 1    \* largest configured health_timeout_secs
MaxApiOut == 2           \* lines the service writes to stdout
MaxApiErr == 1           \* lines the service writes to stderr
MaxRunOut == 2           \* lines the runner writes to stdout
MaxRunErr == 1           \* lines the runner writes to stderr
MaxStream == 3           \* lines the runner writes to stdout in KarateSpec
PipeCap == 2             \* lines an OS pipe buffers before the writer blocks

\* service stdout lines: free text, a SQL record, the terminal REQUEST record
SvcLines ==
    { [text |-> "listening", entry |-> None],
      [text |-> "sql", entry |-> Some(Entry(Some("r1"), "SQL", None, Some(U_A), Some(<<"SELECT", "1">>)))],
      [text |-> "req", entry |-> Some(Entry(Some("r1"), "REQUEST", Some(200), Some(U_A), None))] }

ApiLogEntry_parse_lenient(line) ==
    IF line.entry = None THEN Some(Entry(None, line.text, None, None, None)) ELSE line.entry

\* ApiLogEntry::parse: serde_json::from_str(line).ok()
ApiLogEntry_parse(line) == line.entry

\* a runner stdout line by what run_karate tests on it: the batch marker, the
\* entry its JSON part parses to, and its text
KarateLine(b, e, text) == [batch |-> b, entry |-> e, text |-> text]

InfoText == <<"karate", " ", "version">>

\* "scenarios: 2 | passed: 1 | failed: 1 | time: 0.4675"
SummaryText ==
    <<"scenarios", ":", " ", "2", " ", "|", " ", "passed", ":", " ", "1", " ", "|", " ",
      "failed", ":", " ", "1", " ", "|", " ", "time", ":", " ", "0.4675">>

\* "status code was: 200, expected: 400, url: <url>, response:", or the same
\* without the url part
FailureText(url) ==
    <<"status code was", ":", " ", "200", ",", " ", "expected", ":", " ", "400">>
    \o (IF url = None THEN <<>> ELSE <<",", " ", "url", ":", " ">> \o Unwrap(url))
    \o <<",", " ", "response", ":">>

\* an SQL record whose elapsed text is "NaN"
NanSqlLine ==
    [text |-> "sqlnan",
     entry |-> Some([Entry(Some("r1"), "SQL", None, Some(U_A), Some(<<"SELECT", "2">>))
                        EXCEPT !.elapsed = Some(<<"NaN">>)])]

KarateLines ==
    { KarateLine(TRUE, None, InfoText),
      KarateLine(FALSE, None, InfoText),
      KarateLine(FALSE, None, SummaryText),
      KarateLine(FALSE, None, FailureText(None)) }

\* the lines of a runner that prints batch logs (free text, a record without
\* identifier, records of two requests), failures with and without URL, a
\* URL on a line that is not a failure, and the "failed features:" line
KarateStreamLines ==
    { KarateLine(TRUE, None, InfoText),
      KarateLine(TRUE, Some(Entry(None, "batch", None, None, None)), InfoText),
      KarateLine(TRUE, Some(Entry(Some("r1"), "batch", None, None, None)), InfoText),
      KarateLine(TRUE, Some(Entry(Some("r2"), "batch", None, None, None)), InfoText),
      KarateLine(FALSE, None, InfoText),
      KarateLine(FALSE, None, <<"url", ":", " ", "http://h", "/", "a">>),
      KarateLine(FALSE, None, SummaryText),
      KarateLine(FALSE, None, FailureText(None)),
      KarateLine(FALSE, None, FailureText(Some(<<"http://h", "/", "a">>))),
      KarateLine(FALSE, None, FailureText(Some(<<"http://h", "/", "a", "?", "id=1">>))),
      KarateLine(FALSE, None, FailureText(Some(<<"http://h", "/", "b">>))),
      KarateLine(FALSE, None, Label.failed_features) }

\* the service lines of that run: the terminal record of request r1 and a
\* record of request r2
SvcStreamLines ==
    { [text |-> "req", entry |-> Some(Entry(Some("r1"), "REQUEST", Some(200), Some(U_A), None))],
      [text |-> "proc", entry |-> Some(Entry(Some("r2"), "processing", None, None, None))],
      [text |-> "done", entry |-> Some(Entry(Some("r1"), "done", None, None, None))] }

\* get_last_request_logs(100)
LastLogsMax == 100

\* ExitStatus: code() is an exit code, or None (terminated by a signal)
ExitStatuses == { [code |-> c] : c \in {Some(0), Some(1), Some(3), None} }

\* outcomes of reqwest_health_check: Ok(true), Ok(false), Err (URL does not parse)
ProbeOutcomes == {"ready", "refused", "error"}

Ok(code) == [kind |-> "Ok", code |-> code]
Err == [kind |-> "Err", code |-> 0]

\* run has returned
Returned ==
    pc \in {"done", "failed_api_spawn", "failed_health", "failed_runner_spawn", "failed_wait"}

\* run_karate is inside its stdout loop (process.rs:245-369)
InStdoutLoop ==
    pc \in {"karate_stdout", "k_lock_summary", "k_summary", "k_lock_corr", "k_corr"}

Init ==
    /\ correlator = NewCorrelator
    /\ calls = <<>>
    /\ cleared = <<>>
    /\ ret = NoRet
    /\ cfg \in [health_timeout_secs : 0..MaxHealthTimeout,
                failed_only : BOOLEAN, track_sql : BOOLEAN]
    /\ workload = [NoWorkload EXCEPT !.svcLines = SvcLines \cup {NanSqlLine}, !.runLines = KarateLines,
                                     !.runOut = MaxRunOut, !.runErr = MaxRunErr]
    /\ pc = "start_api"
    /\ result = [kind |-> "none", code |-> 0]
    /\ probes = 0
    /\ healthy = FALSE
    /\ spawns = [api |-> 0, runner |-> 0]
    /\ api = [state |-> "none", killed |-> FALSE, outN |-> 0, errN |-> 0]
    /\ apiOut = 0
    /\ apiErr = 0
    /\ apiTask = [out |-> "unspawned", err |-> "unspawned", line |-> None]
    /\ apiSeen = 0
    /\ runner = [state |-> "none", status |-> None, outN |-> 0, errN |-> 0]
    /\ runOut = 0
    /\ runErr = 0
    /\ kLine = [line |-> None, batch_buffer |-> <<>>, pending_failure_url |-> None,
                current_feature |-> None]
    /\ groups = <<>>
    /\ kSeen = <<>>
    /\ locks = [correlator |-> "none", sql_stats |-> "none", test_summary |-> "none"]
    /\ sql_stats = NewSqlStats
    /\ tracked = <<>>
    /\ test_summary = NewTestSummary
    /\ summary_calls = <<>>

\* ---- start_api ----
StartApiOk ==
    /\ pc = "start_api"
    /\ spawns' = [spawns EXCEPT !.api = @ + 1]
    /\ api' = [api EXCEPT !.state = "running"]
    /\ pc' = "wait_for_api"
    /\ UNCHANGED <<correlator, calls, cleared, ret, cfg, workload, result, probes, healthy, apiOut, apiErr,
                   apiTask, apiSeen, runner, runOut, runErr, kLine, groups, kSeen, locks,
                   sql_stats, tracked, test_summary, summary_calls>>

StartApiErr_retry ==
    /\ pc = "start_api"
    /\ spawns.api < 2
    /\ spawns' = [spawns EXCEPT !.api = @ + 1]
    /\ UNCHANGED <<correlator, calls, cleared, ret, cfg, workload, pc, result, probes, healthy, api, apiOut,
                   apiErr, apiTask, apiSeen, runner, runOut, runErr, kLine, groups, kSeen,
                   locks, sql_stats, tracked, test_summary, summary_calls>>

\* spawn()? fails: the error is returned from run
StartApiErr ==
    /\ pc = "start_api"
    /\ spawns' = [spawns EXCEPT !.api = @ + 1]
    /\ pc' = "failed_api_spawn"
    /\ result' = Err
    /\ UNCHANGED <<correlator, calls, cleared, ret, cfg, workload, probes, healthy, api, apiOut, apiErr,
                   apiTask, apiSeen, runner, runOut, runErr, kLine, groups, kSeen, locks,
                   sql_stats, tracked, test_summary, summary_calls>>

\* ---- wait_for_api ----
attempts_left_inclusive(made, timeout) == made <= timeout

\* for i in 1..=timeout
attempts_left(made, timeout) == made < timeout

probe_ready_lenient(outcome) == outcome # "refused"

\* match reqwest_health_check(..) { Ok(true) => return true, _ => .. }
probe_ready(outcome) == outcome = "ready"

\* one iteration of the loop: probe, then return true or sleep
Probe ==
    /\ pc = "wait_for_api"
    /\ attempts_left(probes, cfg.health_timeout_secs)
    /\ \E outcome \in ProbeOutcomes :
          /\ probes' = probes + 1
          /\ healthy' = (outcome = "ready")
          /\ pc' = IF probe_ready(outcome) THEN "run_karate" ELSE "wait_for_api"
    /\ UNCHANGED <<correlator, calls, cleared, ret, cfg, workload, result, spawns, api, apiOut, apiErr,
                   apiTask, apiSeen, runner, runOut, runErr, kLine, groups, kSeen, locks,
                   sql_stats, tracked, test_summary, summary_calls>>

\* wait_for_api returns false: kill the service, return Ok(1)
HealthCheckFailed ==
    /\ pc = "wait_for_api"
    /\ ~attempts_left(probes, cfg.health_timeout_secs)
    /\ api' = [api EXCEPT !.state = "dead", !.killed = TRUE]
    /\ pc' = "failed_health"
    /\ result' = Ok(1)
    /\ UNCHANGED <<correlator, calls, cleared, ret, cfg, workload, probes, healthy, spawns, apiOut, apiErr,
                   apiTask, apiSeen, runner, runOut, runErr, kLine, groups, kSeen, locks,
                   sql_stats, tracked, test_summary, summary_calls>>

\* ---- the two service reader tasks are spawned, run_karate spawns the runner ----
RunKarateSpawnOk ==
    /\ pc = "run_karate"
    /\ apiTask' = [out |-> "read", err |-> "read", line |-> None]
    /\ spawns' = [spawns EXCEPT !.runner = @ + 1]
    /\ runner' = [runner EXCEPT !.state = "running"]
    /\ pc' = "karate_stdout"
    /\ UNCHANGED <<correlator, calls, cleared, ret, cfg, workload, result, probes, healthy, api, apiOut, apiErr,
                   apiSeen, runOut, runErr, kLine, groups, kSeen, locks, sql_stats, tracked,
                   test_summary, summary_calls>>

\* cmd.spawn()? fails: run_karate returns the error and run returns it
RunKarateSpawnErr ==
    /\ pc = "run_karate"
    /\ apiTask' = [out |-> "read", err |-> "read", line |-> None]
    /\ spawns' = [spawns EXCEPT !.runner = @ + 1]
    /\ pc' = "failed_runner_spawn"
    /\ result' = Err
    /\ UNCHANGED <<correlator, calls, cleared, ret, cfg, workload, probes, healthy, api, apiOut, apiErr,
                   apiSeen, runner, runOut, runErr, kLine, groups, kSeen, locks, sql_stats, tracked,
                   test_summary, summary_calls>>

\* the service-stdout reader task has ended: at end of stream, or at a read error
ApiOutEnded == apiTask.out \in {"done", "read_error", "panicked"}

\* ---- the service process (environment) ----
\* the read end of the service stdout pipe is dropped when its reader ends
ApiWriteOut ==
    /\ api.state = "running"
    /\ ~ApiOutEnded
    /\ api.outN < MaxApiOut
    /\ apiOut < PipeCap
    /\ apiOut' = apiOut + 1
    /\ api' = [api EXCEPT !.outN = @ + 1]
    /\ UNCHANGED <<correlator, calls, cleared, ret, cfg, workload, pc, result, probes, healthy, spawns, apiErr, apiTask,
                   apiSeen, runner, runOut, runErr, kLine, groups, kSeen, locks, sql_stats, tracked,
                   test_summary, summary_calls>>

ApiWriteErr ==
    /\ api.state = "running"
    /\ apiTask.err # "done"
    /\ api.errN < MaxApiErr
    /\ apiErr < PipeCap
    /\ apiErr' = apiErr + 1
    /\ api' = [api EXCEPT !.errN = @ + 1]
    /\ UNCHANGED <<correlator, calls, cleared, ret, cfg, workload, pc, result, probes, healthy, spawns, apiOut, apiTask,
                   apiSeen, runner, runOut, runErr, kLine, groups, kSeen, locks, sql_stats, tracked,
                   test_summary, summary_calls>>

\* the service exits by itself
ApiExit ==
    /\ api.state = "running"
    /\ api' = [api EXCEPT !.state = "dead"]
    /\ UNCHANGED <<correlator, calls, cleared, ret, cfg, workload, pc, result, probes, healthy, spawns, apiOut, apiErr,
                   apiTask, apiSeen, runner, runOut, runErr, kLine, groups, kSeen, locks, sql_stats, tracked,
                   test_summary, summary_calls>>

\* ---- the service-stdout reader task: process_api_output ----
Unlock_leak(l, name) == l

\* a MutexGuard goes out of scope
Unlock(l, name) == [l EXCEPT ![name] = "none"]

\* where process_api_output goes after parsing a line, and after track_query
ApiAfterParse(entry) ==
    IF cfg.track_sql /\ entry.sql # None THEN "lock_sql"
    ELSE IF cfg.failed_only THEN "lock_corr"
    ELSE "read"

ApiAfterTrack == IF cfg.failed_only THEN "lock_corr" ELSE "read"

\* the line at the head of the service stdout pipe: the next line of the
\* stream the service writes, in a run whose stream is fixed; any of the
\* service's lines otherwise
NextSvcLines ==
    IF workload.svcStream = <<>> THEN workload.svcLines
    ELSE {workload.svcStream[api.outN - apiOut + 1]}

\* reader.next_line().await takes the next line off the pipe (what the
\* service wrote there is seen at this point).  Err (the bytes are not valid
\* UTF-8, or the read failed) ends the loop; a non-JSON line is printed or
\* skipped
ApiOutReadLine ==
    /\ ~Returned
    /\ apiTask.out = "read"
    /\ apiOut > 0
    /\ apiOut' = apiOut - 1
    /\ \/ /\ apiTask' = [apiTask EXCEPT !.out = "read_error"]
          /\ UNCHANGED apiSeen
       \/ \E line \in NextSvcLines :
             LET parsed == ApiLogEntry_parse(line)
             IN IF parsed = None
                THEN /\ apiSeen' = apiSeen + 1
                     /\ UNCHANGED apiTask
                ELSE IF ApiAfterParse(Unwrap(parsed)) = "read"
                THEN /\ apiSeen' = apiSeen + 1
                     /\ UNCHANGED apiTask
                ELSE /\ apiTask' = [apiTask EXCEPT !.out = ApiAfterParse(Unwrap(parsed)),
                                                   !.line = Some(line)]
                     /\ UNCHANGED apiSeen
    /\ UNCHANGED <<correlator, calls, cleared, ret, cfg, workload, pc, result, probes, healthy, spawns, api, apiErr,
                   runner, runOut, runErr, kLine, groups, kSeen, locks, sql_stats, tracked, test_summary, summary_calls>>

\* next_line() yields Ok(None): the pipe is empty and its write end is closed
ApiOutEof ==
    /\ ~Returned
    /\ apiTask.out = "read"
    /\ apiOut = 0
    /\ api.state = "dead"
    /\ apiTask' = [apiTask EXCEPT !.out = "done"]
    /\ UNCHANGED <<correlator, calls, cleared, ret, cfg, workload, pc, result, probes, healthy, spawns, api, apiOut,
                   apiErr, apiSeen, runner, runOut, runErr, kLine, groups, kSeen, locks, sql_stats, tracked,
                   test_summary, summary_calls>>

\* sql_stats.lock().await
ApiOutLockSql ==
    /\ ~Returned
    /\ apiTask.out = "lock_sql"
    /\ locks.sql_stats = "none"
    /\ locks' = [locks EXCEPT !.sql_stats = "api_stdout"]
    /\ apiTask' = [apiTask EXCEPT !.out = "track"]
    /\ UNCHANGED <<correlator, calls, cleared, ret, cfg, workload, pc, result, probes, healthy, spawns, api, apiOut,
                   apiErr, apiSeen, runner, runOut, runErr, kLine, groups, kSeen, sql_stats, tracked,
                   test_summary, summary_calls>>

\* stats.track_query(&entry); the guard is dropped
ApiOutTrackQuery ==
    /\ ~Returned
    /\ apiTask.out = "track"
    /\ LET entry == Unwrap(ApiLogEntry_parse(Unwrap(apiTask.line)))
       IN \E o \in track_query(sql_stats, entry) :
             /\ sql_stats' = o.stats
             /\ tracked' = tracked \o o.tracked
             /\ IF o.aborted
                THEN \* the panic unwinds the task; the JoinHandle is awaited and its Err ignored
                     /\ apiTask' = [apiTask EXCEPT !.out = "panicked", !.line = None]
                     /\ apiSeen' = apiSeen
                ELSE /\ apiTask' = [apiTask EXCEPT !.out = ApiAfterTrack,
                                                   !.line = IF ApiAfterTrack = "read" THEN None ELSE @]
                     /\ apiSeen' = IF ApiAfterTrack = "read" THEN apiSeen + 1 ELSE apiSeen
    /\ locks' = Unlock(locks, "sql_stats")
    /\ UNCHANGED <<correlator, calls, cleared, ret, cfg, workload, pc, result, probes, healthy, spawns, api, apiOut,
                   apiErr, runner, runOut, runErr, kLine, groups, kSeen, test_summary, summary_calls>>

\* correlator.lock().await
ApiOutLockCorr ==
    /\ ~Returned
    /\ apiTask.out = "lock_corr"
    /\ locks.correlator = "none"
    /\ locks' = [locks EXCEPT !.correlator = "api_stdout"]
    /\ apiTask' = [apiTask EXCEPT !.out = "buffer"]
    /\ UNCHANGED <<correlator, calls, cleared, ret, cfg, workload, pc, result, probes, healthy, spawns, api, apiOut,
                   apiErr, apiSeen, runner, runOut, runErr, kLine, groups, kSeen, sql_stats, tracked,
                   test_summary, summary_calls>>

\* corr.buffer_api_log(line.clone(), entry.clone()); the guard is dropped
ApiOutBuffer ==
    /\ ~Returned
    /\ apiTask.out = "buffer"
    /\ LET line == Unwrap(apiTask.line)
       IN /\ correlator' = buffer_api_log(correlator, line, Unwrap(ApiLogEntry_parse(line)))
          /\ calls' = Append(calls, <<line, Unwrap(ApiLogEntry_parse(line))>>)
          /\ apiSeen' = apiSeen + 1
    /\ locks' = Unlock(locks, "correlator")
    /\ apiTask' = [apiTask EXCEPT !.out = "read", !.line = None]
    /\ UNCHANGED <<cleared, ret, cfg, workload, pc, result, probes, healthy, spawns, api, apiOut, apiErr, runner, runOut,
                   runErr, kLine, groups, kSeen, sql_stats, tracked, test_summary, summary_calls>>

\* ---- the service-stderr reader task (process.rs:119-124) ----
ApiErrReadLine ==
    /\ ~Returned
    /\ apiTask.err = "read"
    /\ apiErr > 0
    /\ apiErr' = apiErr - 1
    /\ \E ok \in BOOLEAN :
          apiTask' = [apiTask EXCEPT !.err = IF ok THEN "read" ELSE "done"]
    /\ UNCHANGED <<correlator, calls, cleared, ret, cfg, workload, pc, result, probes, healthy, spawns, api, apiOut,
                   apiSeen, runner, runOut, runErr, kLine, groups, kSeen, locks, sql_stats, tracked,
                   test_summary, summary_calls>>

ApiErrEof ==
    /\ ~Returned
    /\ apiTask.err = "read"
    /\ apiErr = 0
    /\ api.state = "dead"
    /\ apiTask' = [apiTask EXCEPT !.err = "done"]
    /\ UNCHANGED <<correlator, calls, cleared, ret, cfg, workload, pc, result, probes, healthy, spawns, api, apiOut,
                   apiErr, apiSeen, runner, runOut, runErr, kLine, groups, kSeen, locks, sql_stats, tracked,
                   test_summary, summary_calls>>

\* ---- the runner process (environment) ----
\* run_karate drops the stdout read end after the stdout loop and the stderr
\* read end after the stderr loop
RunnerWriteOut ==
    /\ runner.state = "running"
    /\ InStdoutLoop
    /\ runner.outN < workload.runOut
    /\ runOut < PipeCap
    /\ runOut' = runOut + 1
    /\ runner' = [runner EXCEPT !.outN = @ + 1]
    /\ UNCHANGED <<correlator, calls, cleared, ret, cfg, workload, pc, result, probes, healthy, spawns, api, apiOut,
                   apiErr, apiTask, apiSeen, runErr, kLine, groups, kSeen, locks, sql_stats, tracked,
                   test_summary, summary_calls>>

RunnerWriteErr ==
    /\ runner.state = "running"
    /\ InStdoutLoop \/ pc = "karate_stderr"
    /\ runner.errN < workload.runErr
    /\ runErr < PipeCap
    /\ runErr' = runErr + 1
    /\ runner' = [runner EXCEPT !.errN = @ + 1]
    /\ UNCHANGED <<correlator, calls, cleared, ret, cfg, workload, pc, result, probes, healthy, spawns, api, apiOut,
                   apiErr, apiTask, apiSeen, runOut, kLine, groups, kSeen, locks, sql_stats, tracked,
                   test_summary, summary_calls>>

\* the runner has written the lines it writes before it exits, or a pipe it
\* still has to write to has lost its read end (the write fails)
RunnerMayExit ==
    \/ runner.outN >= workload.runMust.out /\ runner.errN >= workload.runMust.err
    \/ runner.outN < workload.runMust.out /\ ~InStdoutLoop
    \/ runner.errN < workload.runMust.err /\ ~(InStdoutLoop \/ pc = "karate_stderr")

\* the runner exits; its status is seen when child.wait() returns it
RunnerExit ==
    /\ runner.state = "running"
    /\ RunnerMayExit
    /\ runner' = [runner EXCEPT !.state = "exited"]
    /\ UNCHANGED <<correlator, calls, cleared, ret, cfg, workload, pc, result, probes, healthy, spawns, api, apiOut,
                   apiErr, apiTask, apiSeen, runOut, runErr, kLine, groups, kSeen, locks, sql_stats, tracked,
                   test_summary, summary_calls>>

\* ---- run_karate: the runner stdout loop, on the orchestrator task ----
\* log_type == KarateFailure || line.contains("failed features:")
is_batch_line_unless_classified(line) ==
    line.batch /\ parse_karate_line(line.text) = "KarateInfo"

\* line.contains("\u{1F4E6}"): the line carries the batch marker
is_batch_line(line) == line.batch

next_pending_url_first_wins(pending_failure_url, text) ==
    IF pending_failure_url # None THEN pending_failure_url ELSE extract_failure_url(text)

\* "Check for failure URL" (process.rs:295-298): a URL found in the line
\* replaces the pending one
next_pending_url(pending_failure_url, text) ==
    LET url == extract_failure_url(text)
    IN IF url # None THEN url ELSE pending_failure_url

\* "Track current feature file name" (process.rs:286-292): the text after
\* the first "feature:" of a line that also contains ".feature", trimmed
track_current_feature(current_feature, text) ==
    IF contains(text, Label.feature) /\ contains(text, Label.feature_file)
    THEN Some(trim(SubSeq(text, Unwrap(find(text, Label.feature)) + Len(Label.feature),
                          Len(text))))
    ELSE current_feature

NeedsCorrelation(line) ==
    parse_karate_line(line.text) = "KarateFailure" \/ contains(line.text, Label.failed_features)

\* where the loop body goes after classifying a line, and after the summary
KarateAfterClassify(line) ==
    IF parse_karate_line(line.text) = "KarateSummary" THEN "k_lock_summary"
    ELSE IF NeedsCorrelation(line) THEN "k_lock_corr"
    ELSE "karate_stdout"

KarateAfterSummary(line) ==
    IF NeedsCorrelation(line) THEN "k_lock_corr" ELSE "karate_stdout"

\* what batch_buffer.push receives for a batch line: the JSON part and its
\* entry when the part from the first '{' parses, else the line and None
batch_item(line) ==
    IF line.entry # None
    THEN <<JsonLine(Unwrap(line.entry)), line.entry>>
    ELSE <<line, None>>

batch_label_first_parsed(batch_buffer) ==
    LET parsed == { i \in 1..Len(batch_buffer) : batch_buffer[i][2] # None }
    IN IF parsed = {} \/ Unwrap(batch_buffer[MinOf(parsed)][2]).request_id = None
       THEN "Batch Job"
       ELSE Unwrap(Unwrap(batch_buffer[MinOf(parsed)][2]).request_id)

\* find_map(|(_, entry)| entry.as_ref().and_then(|e| e.request_id.clone()))
\*     .unwrap_or_else(|| "Batch Job".to_string())
batch_label(batch_buffer) ==
    LET with_id == { i \in 1..Len(batch_buffer) :
                        /\ batch_buffer[i][2] # None
                        /\ Unwrap(batch_buffer[i][2]).request_id # None }
    IN IF with_id = {} THEN "Batch Job"
       ELSE Unwrap(Unwrap(batch_buffer[MinOf(with_id)][2]).request_id)

flush_batch_per_line(printed, batch_buffer) ==
    IF batch_buffer = <<>> THEN printed
    ELSE printed \o [i \in 1..Len(batch_buffer) |->
                        [label |-> batch_label(<<batch_buffer[i]>>),
                         lines |-> <<batch_buffer[i]>>]]

\* if !batch_buffer.is_empty() { print the header with the label, the lines
\* and the footer }: the groups printed so far, with the new one
flush_batch(printed, batch_buffer) ==
    IF batch_buffer = <<>> THEN printed
    ELSE Append(printed, [label |-> batch_label(batch_buffer), lines |-> batch_buffer])

flush_at_end_skipped(printed, batch_buffer) == printed

\* the flush after the loop (process.rs:371-386)
flush_at_end(printed, batch_buffer) == flush_batch(printed, batch_buffer)

\* what kSeen keeps of a line: a batch line whole, any other line whole or
\* by its category
Seen(line) ==
    IF line.batch \/ workload.seen = "line" THEN line
    ELSE [batch |-> FALSE, log_type |-> parse_karate_line(line.text)]

\* reader.next_line().await takes the next line off the pipe: Err ends the
\* loop (the trailing batch group is flushed); a batch line is buffered; any
\* other line flushes the batch buffer, is classified and may set the
\* pending failure URL
KarateReadLine ==
    /\ pc = "karate_stdout"
    /\ runOut > 0
    /\ runOut' = runOut - 1
    /\ \/ /\ pc' = "karate_stderr"
          /\ groups' = flush_at_end(groups, kLine.batch_buffer)
          \* batch_buffer and pending_failure_url go out of scope
          /\ kLine' = [line |-> None, batch_buffer |-> <<>>, pending_failure_url |-> None,
                current_feature |-> None]
          /\ UNCHANGED kSeen
       \/ \E line \in workload.runLines :
             /\ kSeen' = Append(kSeen, Seen(line))
             /\ IF is_batch_line(line)
                THEN /\ kLine' = [kLine EXCEPT !.batch_buffer = Append(@, batch_item(line))]
                     /\ UNCHANGED <<pc, groups>>
                ELSE LET next == KarateAfterClassify(line)
                     IN /\ groups' = flush_batch(groups, kLine.batch_buffer)
                        /\ pc' = next
                        /\ kLine' = [line |-> IF next = "karate_stdout" THEN None ELSE Some(line),
                                     batch_buffer |-> <<>>,
                                     pending_failure_url |->
                                         next_pending_url(kLine.pending_failure_url, line.text),
                                     current_feature |->
                                         track_current_feature(kLine.current_feature, line.text)]
    /\ UNCHANGED <<correlator, calls, cleared, ret, cfg, workload, result, probes, healthy, spawns, api, apiOut, apiErr,
                   apiTask, apiSeen, runner, runErr, locks, sql_stats, tracked, test_summary, summary_calls>>

\* next_line() yields Ok(None): leave the loop, flush the trailing batch group
KarateStdoutEof ==
    /\ pc = "karate_stdout"
    /\ runOut = 0
    /\ runner.state = "exited"
    /\ groups' = flush_at_end(groups, kLine.batch_buffer)
    /\ kLine' = [line |-> None, batch_buffer |-> <<>>, pending_failure_url |-> None,
                current_feature |-> None]
    /\ pc' = "karate_stderr"
    /\ UNCHANGED <<correlator, calls, cleared, ret, cfg, workload, result, probes, healthy, spawns, api, apiOut, apiErr,
                   apiTask, apiSeen, runner, runOut, runErr, kSeen, locks, sql_stats, tracked,
                   test_summary, summary_calls>>

\* test_summary_clone.lock().await
KarateLockSummary ==
    /\ pc = "k_lock_summary"
    /\ locks.test_summary = "none"
    /\ locks' = [locks EXCEPT !.test_summary = "karate"]
    /\ pc' = "k_summary"
    /\ UNCHANGED <<correlator, calls, cleared, ret, cfg, workload, result, probes, healthy, spawns, api, apiOut, apiErr,
                   apiTask, apiSeen, runner, runOut, runErr, kLine, groups, kSeen, sql_stats, tracked,
                   test_summary, summary_calls>>

\* summary.update_from_line(&line); the guard is dropped
KarateUpdateSummary ==
    /\ pc = "k_summary"
    /\ test_summary' = update_from_line(test_summary, Unwrap(kLine.line).text)
    /\ summary_calls' = Append(summary_calls, [op |-> "update_from_line",
                                                arg |-> Unwrap(kLine.line).text])
    /\ locks' = Unlock(locks, "test_summary")
    /\ pc' = KarateAfterSummary(Unwrap(kLine.line))
    /\ kLine' = [kLine EXCEPT !.line = IF KarateAfterSummary(Unwrap(kLine.line)) = "karate_stdout"
                                       THEN None ELSE @]
    /\ UNCHANGED <<correlator, calls, cleared, ret, cfg, workload, result, probes, healthy, spawns, api, apiOut, apiErr,
                   apiTask, apiSeen, runner, runOut, runErr, groups, kSeen, sql_stats, tracked>>

\* correlator_for_karate.lock().await
KarateLockCorr ==
    /\ pc = "k_lock_corr"
    /\ locks.correlator = "none"
    /\ locks' = [locks EXCEPT !.correlator = "karate"]
    /\ pc' = "k_corr"
    /\ UNCHANGED <<correlator, calls, cleared, ret, cfg, workload, result, probes, healthy, spawns, api, apiOut, apiErr,
                   apiTask, apiSeen, runner, runOut, runErr, kLine, groups, kSeen, sql_stats, tracked,
                   test_summary, summary_calls>>

correlate_last_first(c, pending_failure_url, failed_only) ==
    LET by_url == IF pending_failure_url = None THEN None
                  ELSE find_matching_logs_by_url(c, Unwrap(pending_failure_url))
        last == IF failed_only THEN get_last_request_logs(c, LastLogsMax) ELSE None
    IN IF last # None THEN last ELSE by_url

\* the correlated logs the failure block prints, or None: by URL when a URL is
\* pending and matches, else (failed-only mode) the last logs of the most
\* recent request
correlate(c, pending_failure_url, failed_only) ==
    LET by_url == IF pending_failure_url = None THEN None
                  ELSE find_matching_logs_by_url(c, Unwrap(pending_failure_url))
    IN IF by_url # None THEN by_url
       ELSE IF failed_only THEN get_last_request_logs(c, LastLogsMax)
       ELSE None

\* the failure block under the correlator lock: look up, print, clear the
\* pending URL; the guard is dropped at the end of the block
KarateCorrelate ==
    /\ pc = "k_corr"
    /\ ret' = [op |-> "correlate", arg |-> kLine.pending_failure_url,
               val |-> correlate(correlator, kLine.pending_failure_url, cfg.failed_only)]
    /\ locks' = Unlock(locks, "correlator")
    /\ pc' = "karate_stdout"
    /\ kLine' = [kLine EXCEPT !.line = None, !.pending_failure_url = None]
    /\ UNCHANGED <<correlator, calls, cleared, cfg, workload, result, probes, healthy, spawns, api, apiOut, apiErr,
                   apiTask, apiSeen, runner, runOut, runErr, groups, kSeen, sql_stats, tracked, test_summary, summary_calls>>

\* ---- run_karate: the runner stderr loop, after the stdout loop ----
KarateReadErrLine ==
    /\ pc = "karate_stderr"
    /\ runErr > 0
    /\ runErr' = runErr - 1
    /\ \E ok \in BOOLEAN : pc' = IF ok THEN "karate_stderr" ELSE "child_wait"
    /\ UNCHANGED <<correlator, calls, cleared, ret, cfg, workload, result, probes, healthy, spawns, api, apiOut, apiErr,
                   apiTask, apiSeen, runner, runOut, kLine, groups, kSeen, locks, sql_stats, tracked, test_summary, summary_calls>>

KarateStderrEof ==
    /\ pc = "karate_stderr"
    /\ runErr = 0
    /\ runner.state = "exited"
    /\ pc' = "child_wait"
    /\ UNCHANGED <<correlator, calls, cleared, ret, cfg, workload, result, probes, healthy, spawns, api, apiOut, apiErr,
                   apiTask, apiSeen, runner, runOut, runErr, kLine, groups, kSeen, locks, sql_stats, tracked,
                   test_summary, summary_calls>>

\* let status = child.wait().await?
ChildWait ==
    /\ pc = "child_wait"
    /\ runner.state = "exited"
    /\ \E st \in ExitStatuses : runner' = [runner EXCEPT !.status = Some(st)]
    /\ pc' = "kill_api"
    /\ UNCHANGED <<correlator, calls, cleared, ret, cfg, workload, result, probes, healthy, spawns, api, apiOut, apiErr,
                   apiTask, apiSeen, runOut, runErr, kLine, groups, kSeen, locks, sql_stats, tracked,
                   test_summary, summary_calls>>

\* child.wait() fails: run_karate returns the error and run returns it
ChildWaitErr ==
    /\ pc = "child_wait"
    /\ pc' = "failed_wait"
    /\ result' = Err
    /\ UNCHANGED <<correlator, calls, cleared, ret, cfg, workload, probes, healthy, spawns, api, apiOut, apiErr, apiTask,
                   apiSeen, runner, runOut, runErr, kLine, groups, kSeen, locks, sql_stats, tracked,
                   test_summary, summary_calls>>

\* ---- run: clean up ----
\* let _ = api_process.kill().await
KillApi ==
    /\ pc = "kill_api"
    /\ api' = [api EXCEPT !.state = "dead", !.killed = TRUE]
    /\ pc' = "join_stdout"
    /\ UNCHANGED <<correlator, calls, cleared, ret, cfg, workload, result, probes, healthy, spawns, apiOut, apiErr,
                   apiTask, apiSeen, runner, runOut, runErr, kLine, groups, kSeen, locks, sql_stats, tracked,
                   test_summary, summary_calls>>

\* stdout_handle.await
JoinStdout ==
    /\ pc = "join_stdout"
    /\ ApiOutEnded
    /\ pc' = "join_stderr"
    /\ UNCHANGED <<correlator, calls, cleared, ret, cfg, workload, result, probes, healthy, spawns, api, apiOut, apiErr,
                   apiTask, apiSeen, runner, runOut, runErr, kLine, groups, kSeen, locks, sql_stats, tracked,
                   test_summary, summary_calls>>

exit_code_nonzero_is_one(status) ==
    IF status.code = Some(0) THEN 0 ELSE 1

\* status.code().unwrap_or(1)
exit_code(status) == IF status.code = None THEN 1 ELSE Unwrap(status.code)

\* stderr_handle.await; exporter.finish(); Ok(exit_code)
JoinStderr ==
    /\ pc = "join_stderr"
    /\ apiTask.err = "done"
    /\ pc' = "done"
    /\ result' = Ok(exit_code(Unwrap(runner.status)))
    /\ UNCHANGED <<correlator, calls, cleared, ret, cfg, workload, probes, healthy, spawns, api, apiOut, apiErr, apiTask,
                   apiSeen, runner, runOut, runErr, kLine, groups, kSeen, locks, sql_stats, tracked,
                   test_summary, summary_calls>>

Next ==
    \/ StartApiOk \/ StartApiErr
    \/ Probe \/ HealthCheckFailed
    \/ RunKarateSpawnOk \/ RunKarateSpawnErr
    \/ ApiWriteOut \/ ApiWriteErr \/ ApiExit
    \/ ApiOutReadLine \/ ApiOutEof \/ ApiOutLockSql \/ ApiOutTrackQuery
    \/ ApiOutLockCorr \/ ApiOutBuffer
    \/ ApiErrReadLine \/ ApiErrEof
    \/ RunnerWriteOut \/ RunnerWriteErr \/ RunnerExit
    \/ KarateReadLine \/ KarateStdoutEof
    \/ KarateLockSummary \/ KarateUpdateSummary \/ KarateLockCorr \/ KarateCorrelate
    \/ KarateReadErrLine \/ KarateStderrEof
    \/ ChildWait \/ ChildWaitErr
    \/ KillApi \/ JoinStdout \/ JoinStderr

Spec == Init /\ [][Next]_vars

\* ------------------------------------------------------------------------
\* KarateSpec: the run up to the end of the runner-stdout loop, with the
\* runner and service lines of KarateStreamLines and SvcStreamLines; both
\* processes write nothing to stderr and SQL tracking is off
KarateInit ==
    /\ correlator = NewCorrelator
    /\ calls = <<>>
    /\ cleared = <<>>
    /\ ret = NoRet
    /\ cfg \in [health_timeout_secs : {MaxHealthTimeout},
                failed_only : BOOLEAN, track_sql : {FALSE}]
    /\ workload = [NoWorkload EXCEPT !.svcLines = SvcStreamLines, !.runLines = KarateStreamLines,
                                     !.runOut = MaxStream]
    /\ pc = "start_api"
    /\ result = [kind |-> "none", code |-> 0]
    /\ probes = 0
    /\ healthy = FALSE
    /\ spawns = [api |-> 0, runner |-> 0]
    /\ api = [state |-> "none", killed |-> FALSE, outN |-> 0, errN |-> 0]
    /\ apiOut = 0
    /\ apiErr = 0
    /\ apiTask = [out |-> "unspawned", err |-> "unspawned", line |-> None]
    /\ apiSeen = 0
    /\ runner = [state |-> "none", status |-> None, outN |-> 0, errN |-> 0]
    /\ runOut = 0
    /\ runErr = 0
    /\ kLine = [line |-> None, batch_buffer |-> <<>>, pending_failure_url |-> None,
                current_feature |-> None]
    /\ groups = <<>>
    /\ kSeen = <<>>
    /\ locks = [correlator |-> "none", sql_stats |-> "none", test_summary |-> "none"]
    /\ sql_stats = NewSqlStats
    /\ tracked = <<>>
    /\ test_summary = NewTestSummary
    /\ summary_calls = <<>>

KarateNext ==
    \/ StartApiOk \/ Probe \/ HealthCheckFailed \/ RunKarateSpawnOk
    \/ ApiWriteOut \/ ApiOutReadLine \/ ApiOutLockCorr \/ ApiOutBuffer
    \/ RunnerWriteOut \/ RunnerExit
    \/ KarateReadLine \/ KarateStdoutEof
    \/ KarateLockSummary \/ KarateUpdateSummary \/ KarateLockCorr \/ KarateCorrelate

KarateSpec == KarateInit /\ [][KarateNext]_vars

\* ------------------------------------------------------------------------
\* LoopSpec: the run up to the end of the runner-stdout loop, with a runner
\* whose batch-marked lines carry summary, failure, URL and feature texts,
\* and a service that logs the request summary of one request

MaxLoop == 3             \* lines the runner writes to stdout in LoopSpec

\* "feature: ../tests/a.feature"
FeatureText == <<"feature", ":", " ", "../tests/a", ".", "feature">>

UrlText(url) == <<"url", ":", " ">> \o url

LoopLines ==
    { KarateLine(FALSE, None, InfoText),
      KarateLine(FALSE, None, UrlText(<<"http://h", "/", "a">>)),
      KarateLine(FALSE, None, FeatureText),
      KarateLine(FALSE, None, SummaryText),
      KarateLine(FALSE, None, FailureText(None)),
      KarateLine(FALSE, None, FailureText(Some(<<"http://h", "/", "b">>))),
      KarateLine(FALSE, None, Label.failed_features),
      KarateLine(TRUE, None, InfoText),
      KarateLine(TRUE, None, FeatureText),
      KarateLine(TRUE, None, SummaryText),
      KarateLine(TRUE, None, FailureText(Some(<<"http://h", "/", "a">>))),
      KarateLine(TRUE, None, Label.failed_features) }

LoopInit ==
    /\ correlator = NewCorrelator
    /\ calls = <<>>
    /\ cleared = <<>>
    /\ ret = NoRet
    /\ cfg \in [health_timeout_secs : {MaxHealthTimeout},
                failed_only : BOOLEAN, track_sql : {FALSE}]
    /\ workload = [NoWorkload EXCEPT
                      !.svcLines = {[text |-> "req",
                                     entry |-> Some(Entry(Some("r1"), "REQUEST", Some(200),
                                                          Some(U_A), None))]},
                      !.runLines = LoopLines, !.runOut = MaxLoop, !.seen = "line"]
    /\ pc = "start_api"
    /\ result = [kind |-> "none", code |-> 0]
    /\ probes = 0
    /\ healthy = FALSE
    /\ spawns = [api |-> 0, runner |-> 0]
    /\ api = [state |-> "none", killed |-> FALSE, outN |-> 0, errN |-> 0]
    /\ apiOut = 0
    /\ apiErr = 0
    /\ apiTask = [out |-> "unspawned", err |-> "unspawned", line |-> None]
    /\ apiSeen = 0
    /\ runner = [state |-> "none", status |-> None, outN |-> 0, errN |-> 0]
    /\ runOut = 0
    /\ runErr = 0
    /\ kLine = [line |-> None, batch_buffer |-> <<>>, pending_failure_url |-> None,
                current_feature |-> None]
    /\ groups = <<>>
    /\ kSeen = <<>>
    /\ locks = [correlator |-> "none", sql_stats |-> "none", test_summary |-> "none"]
    /\ sql_stats = NewSqlStats
    /\ tracked = <<>>
    /\ test_summary = NewTestSummary
    /\ summary_calls = <<>>

LoopNext ==
    \/ StartApiOk \/ Probe \/ HealthCheckFailed \/ RunKarateSpawnOk
    \/ ApiWriteOut \/ ApiOutReadLine \/ ApiOutLockCorr \/ ApiOutBuffer
    \/ RunnerWriteOut \/ RunnerExit
    \/ KarateReadLine \/ KarateStdoutEof
    \/ KarateLockSummary \/ KarateUpdateSummary \/ KarateLockCorr \/ KarateCorrelate

LoopSpec == LoopInit /\ [][LoopNext]_vars

\* ------------------------------------------------------------------------
\* ApiOutSpec: the service and the reader of its stdout (process_api_output)
\* while run_karate waits for the runner; the service writes one of the
\* streams of MaxApiOut lines over SvcLines and nothing to stderr
ApiOutInit ==
    /\ correlator = NewCorrelator
    /\ calls = <<>>
    /\ cleared = <<>>
    /\ ret = NoRet
    /\ cfg \in [health_timeout_secs : {MaxHealthTimeout},
                failed_only : BOOLEAN, track_sql : BOOLEAN]
    /\ workload \in { [NoWorkload EXCEPT !.svcStream = stream] :
                         stream \in [1..MaxApiOut -> SvcLines] }
    /\ pc = "start_api"
    /\ result = [kind |-> "none", code |-> 0]
    /\ probes = 0
    /\ healthy = FALSE
    /\ spawns = [api |-> 0, runner |-> 0]
    /\ api = [state |-> "none", killed |-> FALSE, outN |-> 0, errN |-> 0]
    /\ apiOut = 0
    /\ apiErr = 0
    /\ apiTask = [out |-> "unspawned", err |-> "unspawned", line |-> None]
    /\ apiSeen = 0
    /\ runner = [state |-> "none", status |-> None, outN |-> 0, errN |-> 0]
    /\ runOut = 0
    /\ runErr = 0
    /\ kLine = [line |-> None, batch_buffer |-> <<>>, pending_failure_url |-> None,
                current_feature |-> None]
    /\ groups = <<>>
    /\ kSeen = <<>>
    /\ locks = [correlator |-> "none", sql_stats |-> "none", test_summary |-> "none"]
    /\ sql_stats = NewSqlStats
    /\ tracked = <<>>
    /\ test_summary = NewTestSummary
    /\ summary_calls = <<>>

ApiOutNext ==
    \/ StartApiOk \/ Probe \/ HealthCheckFailed \/ RunKarateSpawnOk
    \/ ApiWriteOut \/ ApiExit
    \/ ApiOutReadLine \/ ApiOutEof \/ ApiOutLockSql \/ ApiOutTrackQuery
    \/ ApiOutLockCorr \/ ApiOutBuffer

ApiOutSpec == ApiOutInit /\ [][ApiOutNext]_vars

\* ------------------------------------------------------------------------
\* SqlSpec: SqlStats under arbitrary sequences of track_query calls

MaxQueries == 6          \* track_query calls with SQL present, records that differ in elapsed only
MaxRecords == 2          \* track_query calls with SQL present, records that differ in every field read

\* the elapsed field of a record: absent, "1ms", "2s", "NaN", "1m"
ElapsedTexts ==
    { None, Some(<<"1", "m", "s">>), Some(<<"2", "s">>), Some(<<"NaN">>), Some(<<"1", "m">>) }

\* the n-th SQL record: its own SQL text, any elapsed text
SqlEntry(n, elapsed) ==
    [Entry(None, "SQL", None, Some(U_A), Some(<<"SELECT", ToString(n)>>))
        EXCEPT !.elapsed = elapsed]

\* the n-th SQL record, with its own uri: any SQL text (a verb in either
\* case, or the empty text), rows_affected, err and level
SqlRecord(n, sql, rows, err, level) ==
    [Entry(None, "SQL", None, Some(<<"/", ToString(n)>>), Some(sql))
        EXCEPT !.elapsed = Some(<<"1", "m", "s">>), !.rows_affected = rows,
               !.err = err, !.level = level]

SqlRecords(n) ==
    { SqlRecord(n, sql, rows, err, level) :
        sql \in {<<"SELECT", "1">>, <<"select", "1">>, <<"INSERT">>, <<>>},
        rows \in {None, Some(3)},
        err \in {None, Some("boom")},
        level \in {"INFO", "ERROR", "error"} }

\* a service record without SQL
NoSqlEntry == Entry(Some("r1"), "REQUEST", Some(200), Some(U_A), None)

\* the records the caller passes as its n-th record with SQL
SqlInputs(n) ==
    IF workload.sqlRecords = "elapsed" THEN {SqlEntry(n, e) : e \in ElapsedTexts}
    ELSE IF workload.sqlRecords = "fields" THEN SqlRecords(n)
    ELSE {}

\* SqlStats::new, and what the caller is going to pass
SqlInit ==
    /\ correlator = NewCorrelator
    /\ calls = <<>>
    /\ cleared = <<>>
    /\ ret = NoRet
    /\ workload \in { [NoWorkload EXCEPT !.sqlRecords = "elapsed", !.sqlCalls = MaxQueries],
                      [NoWorkload EXCEPT !.sqlRecords = "fields", !.sqlCalls = MaxRecords] }
    /\ IdleRun

\* a call of track_query
TrackQuery ==
    /\ Len(tracked) < workload.sqlCalls
    /\ \E entry \in {NoSqlEntry} \cup SqlInputs(Len(tracked) + 1) :
          \E o \in track_query(sql_stats, entry) :
             /\ sql_stats' = o.stats
             /\ tracked' = tracked \o o.tracked
             /\ ret' = [op |-> "track_query", arg |-> entry, val |-> Some(o.aborted)]
    /\ UNCHANGED <<correlator, calls, cleared, cfg, workload, pc, result, probes, healthy,
                   spawns, api, apiOut, apiErr, apiTask, apiSeen, runner, runOut, runErr,
                   kLine, groups, kSeen, locks, test_summary, summary_calls>>

SqlNext == TrackQuery

SqlSpec == SqlInit /\ [][SqlNext]_vars

\* ------------------------------------------------------------------------
\* SummarySpec: TestSummary under arbitrary sequences of update_from_line and
\* track_failure calls

MaxSummaryCalls == 3     \* calls made on the TestSummary

\* "features: <f> | skipped: <k>", either number possibly not a number
FeaturesText(f, k) ==
    <<"feature", "s", ":", " ", f, " ", "|", " ", "skipped", ":", " ", k>>

\* the lines passed to update_from_line: summary lines with and without
\* white space, one whose first integer exceeds u32, one with a word in place
\* of an integer, feature-count lines with either number unparseable, a
\* "skipped:" without "features:", a line with both kinds of counts, and a
\* line with neither
SummaryLines ==
    { SummaryText,
      <<"scenarios", ":", "1", "|", "passed", ":", "1", "|", "failed", ":", "0">>,
      <<"scenarios", ":", " ", "99999999999", " ", "|", " ", "passed", ":", " ", "1", " ", "|",
        " ", "failed", ":", " ", "0">>,
      <<"scenarios", ":", " ", "2", " ", "|", " ", "passed", ":", " ", "x", " ", "|",
        " ", "failed", ":", " ", "1">>,
      FeaturesText("1", "0") \o <<" ", "|", " ", "efficiency", ":", " ", "0.33">>,
      FeaturesText("2", "x"),
      FeaturesText("x", "3"),
      <<"skipped", ":", " ", "3">>,
      FeaturesText("3", "1") \o <<" ", "|", " ">>
          \o <<"scenarios", ":", " ", "3", " ", "|", " ", "passed", ":", " ", "3", " ", "|",
               " ", "failed", ":", " ", "0">>,
      InfoText }

\* the feature tokens passed to track_failure: "checkout.feature:40",
\* "checkout.feature", "checkout.feature:x", "C:checkout.feature:3",
\* "checkout.feature:", "checkout.feature:99999999999"
FeatureTokens ==
    { <<"checkout", ".", "feature", ":", "40">>,
      <<"checkout", ".", "feature">>,
      <<"checkout", ".", "feature", ":", "x">>,
      <<"C", ":", "checkout", ".", "feature", ":", "3">>,
      <<"checkout", ".", "feature", ":">>,
      <<"checkout", ".", "feature", ":", "99999999999">> }

\* TestSummary::new
SummaryInit ==
    /\ correlator = NewCorrelator
    /\ calls = <<>>
    /\ cleared = <<>>
    /\ ret = NoRet
    /\ OrchIdle

\* a call of update_from_line
UpdateFromLine ==
    /\ Len(summary_calls) < MaxSummaryCalls
    /\ \E line \in SummaryLines :
          /\ test_summary' = update_from_line(test_summary, line)
          /\ summary_calls' = Append(summary_calls, [op |-> "update_from_line", arg |-> line])
    /\ UNCHANGED <<correlator, calls, cleared, ret, cfg, workload, pc, result, probes, healthy,
                   spawns, api, apiOut, apiErr, apiTask, apiSeen, runner, runOut, runErr,
                   kLine, groups, kSeen, locks, sql_stats, tracked>>

\* a call of track_failure
TrackFailure ==
    /\ Len(summary_calls) < MaxSummaryCalls
    /\ \E feature \in FeatureTokens, url \in {None, Some(<<"http://h", "/", "a">>)} :
          /\ test_summary' = track_failure(test_summary, feature, "boom", url)
          /\ summary_calls' = Append(summary_calls,
                                     [op |-> "track_failure", arg |-> <<feature, "boom", url>>])
    /\ UNCHANGED <<correlator, calls, cleared, ret, cfg, workload, pc, result, probes, healthy,
                   spawns, api, apiOut, apiErr, apiTask, apiSeen, runner, runOut, runErr,
                   kLine, groups, kSeen, locks, sql_stats, tracked>>

SummaryNext == UpdateFromLine \/ TrackFailure

SummarySpec == SummaryInit /\ [][SummaryNext]_vars

\* ------------------------------------------------------------------------
\* LogSpec: the classification, extraction and filter functions of
\* log_parser.rs and filter.rs; a behaviour applies one of them to one input

\* decoded records: any of ten messages and eight level texts, with or
\* without uri, sql and err
LogEntries ==
    { [Entry(None, m, None, u, q) EXCEPT !.level = l, !.err = e] :
        m \in { "REQUEST", "SQL", "sql", "test", "REQUEST done", "MySQL error",
                "health check", "normal request", "SQL request / response body dump",
                "API request / response body dump" },
        l \in {"DEBUG", "INFO", "info", "WARN", "Warning", "ERROR", "error", "TRACE"},
        u \in {None, Some(U_A)},
        q \in {None, Some(<<"SELECT", "1">>)}, e \in {None, Some("boom")} }

\* runner lines: one or several of the phrases parse_karate_line looks for,
\* at the start, after white space or inside the line; "url:" followed by
\* an http or https URL that ends at a comma, at white space or with the
\* line, by something else, or absent
RunnerLines ==
    { InfoText,
      SummaryText,
      <<" ", " ">> \o SummaryText \o <<" ">>,
      SummaryText \o <<" ">> \o FailureText(None),
      <<"scenarios", ":", " ", "1", " ", "|", " ", "passed", ":", " ", "1">>,
      FailureText(None),
      FailureText(Some(<<"http://h", "/", "a">>)),
      FailureText(Some(<<"https://h", "/", "a", "?", "id=1">>)),
      <<"checkout", ".", "feature", ":", "40", " ">> \o FailureText(None),
      <<"status code was", ":", " ", "200">>,
      <<"Scenario", ":", " ", "login">>,
      <<" ", "Scenario", ":", " ", "login">>,
      <<"Scenario", ":", " ", "login", " ", "failed">>,
      <<"in", " ", "Scenario", ":", " ", "login">>,
      <<"in", " ", "Scenario", ":", " ", "login", " ", "failed">>,
      <<"checkout", ".", "feature", ":", "40">>,
      <<"checkout", ".", "feature", ":", "40", " ", "failed">>,
      <<"checkout", ".", "feature">>,
      FeaturesText("1", "0"),
      <<" ">> \o FeaturesText("1", "0"),
      <<"feature", "s", ":", " ", "checkout", ".", "feature", ":", "40">>,
      <<"elapsed", ":", " ", "2">>,
      <<"time", " ", "elapsed", ":", " ", "2">>,
      Label.failed_features,
      <<"url", ":", " ", "http://h", "/", "a">>,
      <<"url", ":", "http://h", "/", "a", " ", "took", " ", "3">>,
      <<"url", ":", " ", "ftp://h", "/", "a">>,
      <<"url", ":", " ", "/", "a", ",", " ", "see", " ", "http://h", "/", "b">>,
      <<"see", " ", "http://h", "/", "a">>,
      <<"url", ":", " ", "none", ",", " ", "url", ":", " ", "http://h", "/", "b", ",",
        " ", "url", ":", " ", "http://h", "/", "a">> }

\* the arguments of LogFilter::new: a level name, and include and exclude
\* patterns "health.*check", "SQL", "boom", "/a" and the malformed "("
FilterLevels == {"ALL", "DEBUG", "INFO", "warn", "ERROR", "WARNING"}
IncludeLists == { <<>>, << <<"health", ".*", "check">> >>, << <<"SQL">>, <<"/", "a">> >>,
                  << <<"(">> >> }
ExcludeLists == { <<>>, << <<"health", ".*", "check">> >>, << <<"boom">> >>,
                  << <<"(">>, <<"SQL">> >> }

LogInit ==
    /\ correlator = NewCorrelator
    /\ calls = <<>>
    /\ cleared = <<>>
    /\ ret = NoRet
    /\ OrchIdle

\* a call of ApiLogEntry::log_type
LogType ==
    /\ ret = NoRet
    /\ \E entry \in LogEntries :
          ret' = [op |-> "log_type", arg |-> entry, val |-> Some(log_type(entry))]
    /\ UNCHANGED <<correlator, calls, cleared>>
    /\ UNCHANGED orchVars

\* a call of parse_karate_line
ParseKarateLine ==
    /\ ret = NoRet
    /\ \E line \in RunnerLines :
          ret' = [op |-> "parse_karate_line", arg |-> line,
                  val |-> Some(parse_karate_line(line))]
    /\ UNCHANGED <<correlator, calls, cleared>>
    /\ UNCHANGED orchVars

\* a call of extract_failure_url
ExtractFailureUrl ==
    /\ ret = NoRet
    /\ \E line \in RunnerLines :
          ret' = [op |-> "extract_failure_url", arg |-> line,
                  val |-> extract_failure_url(line)]
    /\ UNCHANGED <<correlator, calls, cleared>>
    /\ UNCHANGED orchVars

\* LogFilter::new followed by a call of should_include_api
ShouldIncludeApi ==
    /\ ret = NoRet
    /\ \E level \in FilterLevels, include \in IncludeLists, exclude \in ExcludeLists,
          entry \in LogEntries :
          LET filter == LogFilter_new(level, include, exclude)
          IN ret' = [op |-> "should_include_api", arg |-> <<filter, entry>>,
                     val |-> Some(should_include_api(filter, entry))]
    /\ UNCHANGED <<correlator, calls, cleared>>
    /\ UNCHANGED orchVars

LogNext == LogType \/ ParseKarateLine \/ ExtractFailureUrl \/ ShouldIncludeApi

LogSpec == LogInit /\ [][LogNext]_vars

\* ------------------------------------------------------------------------
\* DrainSpec: a run whose runner writes a given number of lines to stdout
\* and to stderr, in any interleaving, and then exits; its lines are
\* informational, the service writes nothing and ends when it is killed,
\* and child.wait() succeeds.  No step repeats a state, so the run goes on as long as a
\* task or process can take a step (weak fairness of the next-state relation)
MaxMustOut == 1          \* stdout lines the runner writes before it exits

DrainInit ==
    /\ correlator = NewCorrelator
    /\ calls = <<>>
    /\ cleared = <<>>
    /\ ret = NoRet
    /\ cfg \in [health_timeout_secs : {MaxHealthTimeout},
                failed_only : BOOLEAN, track_sql : {FALSE}]
    /\ workload \in { [NoWorkload EXCEPT !.runLines = {KarateLine(FALSE, None, InfoText)},
                                         !.runOut = o, !.runErr = e,
                                         !.runMust = [out |-> o, err |-> e]] :
                         o \in 0..MaxMustOut, e \in 0..(PipeCap + 1) }
    /\ pc = "start_api"
    /\ result = [kind |-> "none", code |-> 0]
    /\ probes = 0
    /\ healthy = FALSE
    /\ spawns = [api |-> 0, runner |-> 0]
    /\ api = [state |-> "none", killed |-> FALSE, outN |-> 0, errN |-> 0]
    /\ apiOut = 0
    /\ apiErr = 0
    /\ apiTask = [out |-> "unspawned", err |-> "unspawned", line |-> None]
    /\ apiSeen = 0
    /\ runner = [state |-> "none", status |-> None, outN |-> 0, errN |-> 0]
    /\ runOut = 0
    /\ runErr = 0
    /\ kLine = [line |-> None, batch_buffer |-> <<>>, pending_failure_url |-> None,
                current_feature |-> None]
    /\ groups = <<>>
    /\ kSeen = <<>>
    /\ locks = [correlator |-> "none", sql_stats |-> "none", test_summary |-> "none"]
    /\ sql_stats = NewSqlStats
    /\ tracked = <<>>
    /\ test_summary = NewTestSummary
    /\ summary_calls = <<>>

DrainNext ==
    \/ StartApiOk \/ Probe \/ HealthCheckFailed \/ RunKarateSpawnOk
    \/ ApiOutEof \/ ApiErrEof
    \/ RunnerWriteOut \/ RunnerWriteErr \/ RunnerExit
    \/ KarateReadLine \/ KarateStdoutEof
    \/ KarateReadErrLine \/ KarateStderrEof
    \/ ChildWait \/ KillApi \/ JoinStdout \/ JoinStderr

DrainSpec == DrainInit /\ [][DrainNext]_vars /\ WF_vars(DrainNext)

\* ------------------------------------------------------------------------
\* Properties of the orchestrator

\* C1 as claimed: run returns its result (Done) only after both service
\* reader tasks have ended, and every line the service wrote to stdout has
\* been processed by the service-stdout reader (the one line whose read
\* failed, if any, is not counted as dropped).
C1_DrainedBeforeDone ==
    pc = "done" =>
        /\ ApiOutEnded
        /\ apiTask.err = "done"
        /\ apiSeen + (IF apiTask.out = "read_error" THEN 1 ELSE 0) = api.outN

\* C2 as claimed: while the orchestrator is Running the runner-stderr reader
\* is independent of the runner-stdout reader: a line waiting on runner
\* stderr can be consumed although runner stdout has not reached its end.
C2_RunnerStderrIndependent ==
    (InStdoutLoop /\ runErr > 0) => ENABLED KarateReadErrLine

\* C3: a task touches an aggregator only while it owns that aggregator's
\* mutex, and a task that waits for a line (or has ended) owns no mutex:
\* every lock is taken and released within the processing of one line.
C3_LocksWithinOneLine ==
    /\ apiTask.out = "track" => locks.sql_stats = "api_stdout"
    /\ apiTask.out = "buffer" => locks.correlator = "api_stdout"
    /\ pc = "k_summary" => locks.test_summary = "karate"
    /\ pc = "k_corr" => locks.correlator = "karate"
    /\ apiTask.out \in {"unspawned", "read", "done", "read_error"} =>
          \A m \in DOMAIN locks : locks[m] # "api_stdout"
    /\ pc \notin {"k_summary", "k_corr"} =>
          \A m \in DOMAIN locks : locks[m] # "karate"
    /\ apiTask.out # "track" => locks.sql_stats # "api_stdout"
    /\ apiTask.out # "buffer" => locks.correlator # "api_stdout"

\* the runner-stdout reader waits for the correlator while the service-stdout
\* reader, which took the sql_stats lock and released it, holds it
C3_Witness ==
    /\ pc = "k_lock_corr"
    /\ apiTask.out = "buffer"
    /\ locks.correlator = "api_stdout"
    /\ locks.sql_stats = "none"
    /\ sql_stats.total_queries >= 1

\* C4: the runner is spawned only after a readiness probe has succeeded; when
\* the health check exhausts its attempts the runner is never spawned, the
\* service process is killed and run returns exit code 1.
C4_RunnerOnlyWhenHealthy ==
    /\ spawns.runner > 0 => healthy
    /\ pc = "failed_health" =>
          /\ ~healthy
          /\ spawns.runner = 0
          /\ runner.state = "none"
          /\ api.killed
          /\ api.state = "dead"
          /\ result = Ok(1)

\* the health check ran out of attempts after the service had been started
C4_Witness ==
    /\ pc = "failed_health"
    /\ spawns.api = 1
    /\ api.killed
    /\ result = Ok(1)

C6_ExitCodePassedThrough ==
    pc = "done" =>
        /\ result.kind = "Ok"
        /\ Unwrap(runner.status).code # None =>
              result.code = Unwrap(Unwrap(runner.status).code)

\* the runner exited with a code other than 0 and 1
C6_Witness ==
    /\ pc = "done"
    /\ Unwrap(runner.status).code = Some(3)
    /\ result = Ok(3)

\* C7: each process is spawned at most once; a failed spawn ends run at once
\* with the error, and after a failed service spawn no readiness probe is made
\* and the runner is not spawned.
C7_SpawnFailureIsFatal ==
    /\ spawns.api <= 1
    /\ spawns.runner <= 1
    /\ (spawns.api = 1 /\ api.state = "none") => pc = "failed_api_spawn"
    /\ (spawns.runner = 1 /\ runner.state = "none") => pc = "failed_runner_spawn"
    /\ pc = "failed_api_spawn" => (result = Err /\ probes = 0 /\ spawns.runner = 0)
    /\ pc = "failed_runner_spawn" => result = Err

\* the runner could not be spawned after the service had become ready
C7_Witness ==
    /\ pc = "failed_runner_spawn"
    /\ healthy
    /\ spawns.runner = 1
    /\ runner.state = "none"

\* ------------------------------------------------------------------------
\* Properties of the runner-stdout loop, stated over the history kSeen

\* C15: the failure block looks up the pending URL exactly, then partially,
\* then (no URL-based match) takes the last LastLogsMax records of the most
\* recent identifier, and displays the bucket of the first step that matches;
\* with no match it displays nothing and goes on with the next line; what was
\* displayed for a line is never changed later, whatever is recorded after.
C15_FallbackChain ==
    [][ /\ (pc = "k_corr" /\ pc' # "k_corr") =>
              LET url == kLine.pending_failure_url
                  pq == IF url = None THEN None ELSE extract_path_query(Unwrap(url))
                  bucket(i) == LET id == Unwrap(calls[i][2].request_id)
                               IN Some(<<id, PairsOf(id)>>)
                  lastN(i) == LET id == Unwrap(calls[i][2].request_id)
                                  all == PairsOf(id)
                                  m == Min(LastLogsMax, Len(all))
                              IN Some(<<id, SubSeq(all, Len(all) - m + 1, Len(all))>>)
              IN /\ ret'.op = "correlate"
                 /\ ret'.val =
                       IF pq # None /\ TerminalsWith(Unwrap(pq)) # {}
                       THEN bucket(MaxOf(TerminalsWith(Unwrap(pq))))
                       ELSE IF pq # None /\ PartialTerminals(Unwrap(pq)) # {}
                       THEN bucket(MinOf(PartialTerminals(Unwrap(pq))))
                       ELSE IF Identified # {} THEN lastN(MaxOf(Identified))
                       ELSE None
                 /\ pc' = "karate_stdout"
        /\ ret' # ret => pc = "k_corr" ]_vars

\* in failed-only mode a failure with a URL found nothing, and the terminal
\* record of that URL was recorded only afterwards
C15_Witness ==
    /\ cfg.failed_only
    /\ ret.op = "correlate"
    /\ ret.arg = Some(<<"http://h", "/", "a">>)
    /\ ret.val = None
    /\ TerminalsWith(U_A) # {}

\* first position of the run of batch lines that ends right before position t
RunStart(t) ==
    CHOOSE st \in 1..t :
        /\ \A j \in st..(t - 1) : kSeen[j].batch
        /\ st = 1 \/ ~kSeen[st - 1].batch

\* the run of batch lines right before position t, as the buffer keeps them
RunBefore(t) ==
    [j \in 1..(t - RunStart(t)) |-> batch_item(kSeen[RunStart(t) + j - 1])]

\* positions of the non-batch lines that follow a batch line
RunEnds == { t \in 2..Len(kSeen) : ~kSeen[t].batch /\ kSeen[t - 1].batch }

RECURSIVE SortedSeq(_)
SortedSeq(S) == IF S = {} THEN <<>> ELSE <<MinOf(S)>> \o SortedSeq(S \ {MinOf(S)})

\* the maximal runs of batch lines that a non-batch line has ended, in order
ClosedRuns == [k \in 1..Cardinality(RunEnds) |-> RunBefore(SortedSeq(RunEnds)[k])]

\* the batch lines read since the last non-batch line
OpenRun == RunBefore(Len(kSeen) + 1)

GroupLines == [k \in 1..Len(groups) |-> groups[k].lines]

SummariesSeen ==
    Cardinality({ i \in 1..Len(kSeen) :
                    ~kSeen[i].batch /\ kSeen[i].log_type = "KarateSummary" })

\* C16: while the loop runs, the emitted groups are exactly the maximal runs
\* of consecutive batch lines that a non-batch line has ended, one group per
\* run with the run's lines in arrival order, and the buffer holds the run
\* still open; the non-batch line that ended a run is not in a group and is
\* processed like any other: it is the line being processed, and every
\* summary line read has updated (or is about to update) the test summary.
C16_OneGroupPerRun ==
    InStdoutLoop =>
        /\ GroupLines = ClosedRuns
        /\ kLine.batch_buffer = OpenRun
        /\ kLine.line # None =>
              /\ kSeen # <<>>
              /\ kSeen[Len(kSeen)] = Seen(Unwrap(kLine.line))
        /\ SummariesSeen =
              Len(summary_calls) + (IF pc \in {"k_lock_summary", "k_summary"} THEN 1 ELSE 0)

\* two batch lines were followed by a summary line: one group of two lines
\* was emitted and the summary line is being processed
C16_Witness ==
    /\ pc = "k_lock_summary"
    /\ Len(kSeen) = 3
    /\ Len(groups) = 1
    /\ Len(groups[1].lines) = 2
    /\ kLine.line # None
    /\ parse_karate_line(Unwrap(kLine.line).text) = "KarateSummary"

\* run_karate has left its stdout loop
AfterStdoutLoop ==
    pc \in {"karate_stderr", "child_wait", "kill_api", "join_stdout", "join_stderr",
            "done", "failed_wait"}

RECURSIVE Flatten(_)
Flatten(ss) == IF ss = <<>> THEN <<>> ELSE Head(ss) \o Flatten(Tail(ss))

\* the batch lines read so far, as the buffer keeps them
BatchItemsSeen ==
    LET batch == SelectSeq(kSeen, LAMBDA l : l.batch)
    IN [i \in 1..Len(batch) |-> batch_item(batch[i])]

WithId(lines) ==
    { i \in 1..Len(lines) :
        lines[i][2] # None /\ Unwrap(lines[i][2]).request_id # None }

\* C18: every emitted group is labelled "Batch Job" exactly when none of its
\* lines parsed to a record with an identifier, and otherwise with the
\* identifier of the first such line in arrival order; lines that did not
\* parse, or parsed without identifier, are members of the group all the same.
C18_GroupLabel ==
    \A k \in 1..Len(groups) :
        LET lines == groups[k].lines
        IN /\ (groups[k].label = "Batch Job") <=> (WithId(lines) = {})
           /\ \A i \in WithId(lines) :
                 (\A j \in WithId(lines) : i <= j) =>
                     groups[k].label = Unwrap(Unwrap(lines[i][2]).request_id)

\* a group of three lines: free text, a record without identifier, a record
\* of request r2; it is labelled r2
C18_Witness ==
    \E k \in 1..Len(groups) :
        /\ Len(groups[k].lines) = 3
        /\ groups[k].lines[1][2] = None
        /\ groups[k].lines[2][2] # None
        /\ WithId(groups[k].lines) = {3}
        /\ groups[k].label = "r2"

\* ------------------------------------------------------------------------
\* Properties of SqlStats

\* the position of a tracked query in the order of the track_query calls
TrackedAt(q) == CHOOSE k \in 1..Len(tracked) : tracked[k].query = q

SameElapsed(a, b) == partial_cmp(a.elapsed_ms, b.elapsed_ms) = Some("Equal")

InSlowest(q) ==
    \E i \in 1..Len(sql_stats.slowest_queries) : sql_stats.slowest_queries[i] = q

\* C19 as claimed: after any sequence of track_query calls the slowest-query
\* set has at most 5 entries, no entry is followed by one with a greater
\* elapsed time, and every entry is the snapshot of a tracked query, each
\* tracked query appearing at most once.
C19_SlowestSet ==
    LET S == sql_stats.slowest_queries
    IN /\ Len(S) <= SlowestKept
       /\ \A i, j \in 1..Len(S) :
             i < j => partial_cmp(S[i].elapsed_ms, S[j].elapsed_ms) # Some("Less")
       /\ \A i \in 1..Len(S) : \E k \in 1..Len(tracked) : tracked[k].query = S[i]
       /\ \A i, j \in 1..Len(S) : i # j => S[i] # S[j]

\* C20: among entries of equal elapsed time the slowest-query set keeps the
\* order of insertion, and a tracked query that is not in the set was
\* inserted after every entry of the set whose elapsed time equals its own.
C20_TiesKeepEarlier ==
    LET S == sql_stats.slowest_queries
    IN /\ \A i, j \in 1..Len(S) :
             (i < j /\ SameElapsed(S[i], S[j])) => TrackedAt(S[i]) < TrackedAt(S[j])
       /\ \A k \in 1..Len(tracked) :
             ~InSlowest(tracked[k].query) =>
                \A i \in 1..Len(S) :
                   SameElapsed(S[i], tracked[k].query) => TrackedAt(S[i]) < k

\* the set is full of queries of one elapsed time, and truncation has dropped
\* a query of that same elapsed time
C20_Witness ==
    LET S == sql_stats.slowest_queries
    IN /\ Len(S) = SlowestKept
       /\ \A i \in 1..Len(S) : SameElapsed(S[i], S[1])
       /\ \E k \in 1..Len(tracked) :
             /\ ~InSlowest(tracked[k].query)
             /\ SameElapsed(S[1], tracked[k].query)

\* the number a per-verb counter map gives a verb
CountOf(by_type, verb) == IF verb \in DOMAIN by_type THEN by_type[verb] ELSE 0

\* C21: a track_query call with a record without SQL changes no field of
\* SqlStats; with SQL present it adds one to total_queries and to the
\* counter of the upper-cased first word of the SQL text and to no other
\* counter, adds rows_affected (if present) to total_rows_affected, adds one
\* to error_count exactly when err is present or level is "ERROR", and adds
\* the parsed elapsed time to total_elapsed_ms.
C21_TrackQueryEffect ==
    [][ret'.op = "track_query" =>
         LET e == ret'.arg
             old == sql_stats
             new == sql_stats'
         IN IF e.sql = None THEN new = old
            ELSE /\ new.total_queries = old.total_queries + 1
                 /\ DOMAIN old.queries_by_type \subseteq DOMAIN new.queries_by_type
                 /\ \A verb \in DOMAIN new.queries_by_type :
                       CountOf(new.queries_by_type, verb) =
                          CountOf(old.queries_by_type, verb)
                          + (IF Unwrap(e.sql) # <<>> /\ verb = to_uppercase(Head(Unwrap(e.sql)))
                             THEN 1
                             ELSE IF Unwrap(e.sql) = <<>> /\ verb = "UNKNOWN" THEN 1 ELSE 0)
                 /\ new.total_rows_affected =
                       old.total_rows_affected
                       + (IF e.rows_affected = None THEN 0 ELSE Unwrap(e.rows_affected))
                 /\ new.error_count =
                       old.error_count + (IF e.err # None \/ e.level = "ERROR" THEN 1 ELSE 0)
                 /\ new.total_elapsed_ms = f64_add(old.total_elapsed_ms, parse_elapsed(e.elapsed))
      ]_vars

\* two records with the verb in different case were counted together; the
\* last one carries rows_affected and an err field
C21_Witness ==
    /\ ret.op = "track_query"
    /\ ret.arg.sql = Some(<<"select", "1">>)
    /\ ret.arg.rows_affected # None
    /\ ret.arg.err # None
    /\ CountOf(sql_stats.queries_by_type, "SELECT") = 2
    /\ sql_stats.total_rows_affected = 3
    /\ sql_stats.error_count = 1

\* C22 as claimed: no track_query call aborts, whatever the elapsed text,
\* and a record whose elapsed text is absent or does not parse gives a
\* snapshot with elapsed time 0.
C22_NeverAborts ==
    /\ \A k \in 1..Len(tracked) : ~tracked[k].aborted
    /\ (ret.op = "track_query" /\ ret.arg.sql # None
           /\ ret.arg.elapsed \in {None, Some(<<"1", "m">>)})
        => tracked[Len(tracked)].query.elapsed_ms = F64(0)

\* ------------------------------------------------------------------------
\* Properties of TestSummary

\* the update_from_line calls whose line matched the summary pattern
PatternMatches ==
    { i \in 1..Len(summary_calls) :
         /\ summary_calls[i].op = "update_from_line"
         /\ regex_captures(summary_calls[i].arg, SummaryPattern) # None }

SummaryIntegers(line) ==
    LET caps == regex_captures(line, SummaryPattern)
    IN IF caps # None /\ \A i \in 1..3 : Unwrap(caps)[i] \in DOMAIN U32Numerals
       THEN Some([i \in 1..3 |-> U32Numerals[Unwrap(caps)[i]]])
       ELSE None

\* the update_from_line calls whose line matched the summary pattern with
\* three integers that fit u32
SummaryMatches ==
    { i \in 1..Len(summary_calls) :
         /\ summary_calls[i].op = "update_from_line"
         /\ SummaryIntegers(summary_calls[i].arg) # None }

C24_FeaturesAndSkipped ==
    [][(summary_calls' # summary_calls
        /\ summary_calls'[Len(summary_calls')].op = "update_from_line") =>
         LET line == summary_calls'[Len(summary_calls')].arg
             features == extract_number_after(Label.features, line)
             skipped == extract_number_after(Label.skipped, line)
         IN IF contains(line, Label.features)
            THEN /\ test_summary'.total_features =
                       IF features = None THEN test_summary.total_features
                       ELSE Unwrap(features)
                 /\ test_summary'.skipped =
                       IF skipped = None THEN test_summary.skipped ELSE Unwrap(skipped)
            ELSE /\ test_summary'.total_features = test_summary.total_features
                 /\ test_summary'.skipped = test_summary.skipped
      ]_vars

\* after "features: 1 | skipped: 0", the line "features: 2 | skipped: x" has
\* updated total_features and kept skipped; then "features: x | skipped: 3"
\* has updated skipped and kept total_features
C24_Witness ==
    /\ Len(summary_calls) = 3
    /\ summary_calls[2] = [op |-> "update_from_line", arg |-> FeaturesText("2", "x")]
    /\ summary_calls[3] = [op |-> "update_from_line", arg |-> FeaturesText("x", "3")]
    /\ test_summary.total_features = 2
    /\ test_summary.skipped = 3

\* the part of a feature token before its last ':' (the whole token when it
\* has none), and the part after it
TokenFile(feature) ==
    IF \E i \in 1..Len(feature) : feature[i] = ":"
    THEN SubSeq(feature, 1, MaxOf({i \in 1..Len(feature) : feature[i] = ":"}) - 1)
    ELSE feature

TokenSuffix(feature) ==
    IF \E i \in 1..Len(feature) : feature[i] = ":"
    THEN Some(SubSeq(feature, MaxOf({i \in 1..Len(feature) : feature[i] = ":"}) + 1,
                     Len(feature)))
    ELSE None

\* C25: a track_failure call appends exactly one record to failed_features,
\* keeps every earlier record and every counter, and the record has the
\* message and url passed, the file path before the last ':' of the token
\* (the whole token if it has no ':') and a line number exactly when the part
\* after the last ':' is an unsigned integer, which is then the line number.
C25_TrackFailureAppends ==
    [][(summary_calls' # summary_calls
        /\ summary_calls'[Len(summary_calls')].op = "track_failure") =>
         LET arg == summary_calls'[Len(summary_calls')].arg
             old == test_summary.failed_features
             new == test_summary'.failed_features
             rec == new[Len(new)]
             suffix == TokenSuffix(arg[1])
             numeric == suffix # None /\ Len(Unwrap(suffix)) = 1
                        /\ Unwrap(suffix)[1] \in DOMAIN U32Numerals
         IN /\ Len(new) = Len(old) + 1
            /\ SubSeq(new, 1, Len(old)) = old
            /\ [test_summary' EXCEPT !.failed_features = old] = test_summary
            /\ rec.feature_file = TokenFile(arg[1])
            /\ rec.error_message = arg[2]
            /\ rec.url = arg[3]
            /\ rec.line_number =
                  IF numeric THEN Some(U32Numerals[Unwrap(suffix)[1]]) ELSE None
      ]_vars

\* after a summary line and one failure, the token "C:checkout.feature:3" was
\* recorded as file "C:checkout.feature", line 3, and a token with a
\* non-numeric suffix before it without line number
C25_Witness ==
    /\ Len(test_summary.failed_features) = 2
    /\ test_summary.total_scenarios = 2
    /\ test_summary.failed_features[1].feature_file = <<"checkout", ".", "feature">>
    /\ test_summary.failed_features[1].line_number = None
    /\ summary_calls[2].arg[1] = <<"checkout", ".", "feature", ":", "x">>
    /\ test_summary.failed_features[2].feature_file = <<"C", ":", "checkout", ".", "feature">>
    /\ test_summary.failed_features[2].line_number = Some(3)

\* ------------------------------------------------------------------------
\* Properties of the service-stdout reader

\* the line at the head of the service stdout pipe
HeadLine == workload.svcStream[api.outN - apiOut + 1]

\* the lines among the first n of the stream that decode as JSON
RECURSIVE JsonLines(_)
JsonLines(n) ==
    IF n = 0 THEN <<>>
    ELSE JsonLines(n - 1)
         \o (IF workload.svcStream[n].entry = None THEN <<>> ELSE <<workload.svcStream[n]>>)

\* the SQL texts of the lines among the first n of the stream that carry SQL
RECURSIVE SqlTexts(_)
SqlTexts(n) ==
    IF n = 0 THEN <<>>
    ELSE LET entry == workload.svcStream[n].entry
         IN SqlTexts(n - 1)
            \o (IF entry = None \/ Unwrap(entry).sql = None THEN <<>>
                ELSE <<Unwrap(Unwrap(entry).sql)>>)

\* the number of lines the reader has passed to track_query if it tracks:
\* the lines it is done with, and the line it is about to buffer
TrackedLines ==
    IF apiTask.out \in {"lock_corr", "buffer"} THEN apiSeen + 1 ELSE apiSeen

\* C28: a line of the service's stdout that does not decode as JSON is not
\* an error: the step that reads it changes neither the SqlStats nor the
\* RequestCorrelator and leaves the reader in its loop, ready for the next
\* line; and the lines around it are processed in the order of the stream
\* (the records buffered are the JSON lines among the lines processed so
\* far, the queries tracked are those of the SQL lines among them).
C28_NonJsonLineSkipped ==
    /\ [][ /\ apiOut' = apiOut - 1
           /\ apiTask'.out # "read_error"
           /\ HeadLine.entry = None
           => /\ sql_stats' = sql_stats
              /\ correlator' = correlator
              /\ calls' = calls
              /\ tracked' = tracked
              /\ apiTask' = apiTask
              /\ apiTask.out = "read"
              /\ apiSeen' = apiSeen + 1 ]_vars
    /\ [](cfg.failed_only =>
            calls = [i \in 1..Len(JsonLines(apiSeen)) |->
                        <<JsonLines(apiSeen)[i], Unwrap(JsonLines(apiSeen)[i].entry)>>])
    /\ [](cfg.track_sql =>
            /\ Len(tracked) = Len(SqlTexts(TrackedLines))
            /\ \A i \in 1..Len(tracked) : tracked[i].query.sql = SqlTexts(TrackedLines)[i])

\* the reader has read a line that is not JSON and then buffered and
\* tracked the SQL record that followed it
C28_Witness ==
    /\ workload.svcStream # <<>>
    /\ workload.svcStream[1].entry = None
    /\ cfg.failed_only /\ cfg.track_sql
    /\ apiSeen = 2
    /\ Len(calls) = 1
    /\ sql_stats.total_queries = 1
    /\ apiTask.out = "read"

\* ------------------------------------------------------------------------
\* Properties of the classification, extraction and filter functions

\* C26: log_type classifies a record by the first rule that matches:
\* SQL-related (the message mentions SQL, or the sql field is present) with
\* level ERROR or an err field is an error; SQL-related otherwise is an SQL
\* query; a message with the body-dump marker is a body dump; the message
\* "REQUEST" is a request summary; level ERROR is an error; anything else is
\* general.  A record with message "REQUEST" and an sql field is never a
\* request summary: it is an SQL query (an error under the first rule).
C26_LogTypePrecedence ==
    ret.op = "log_type" =>
        LET e == ret.arg
            t == Unwrap(ret.val)
            sqlRelated == contains(msg_text(e.msg), <<"SQL">>) \/ e.sql # None
            failed == e.level = "ERROR" \/ e.err # None
            bodyDump == contains(msg_text(e.msg), <<"request / response body dump">>)
        IN /\ sqlRelated /\ failed => t = "ApiError"
           /\ sqlRelated /\ ~failed => t = "ApiSql"
           /\ ~sqlRelated /\ bodyDump => t = "ApiBodyDump"
           /\ ~sqlRelated /\ ~bodyDump /\ e.msg = "REQUEST" => t = "ApiRequest"
           /\ ~sqlRelated /\ ~bodyDump /\ e.msg # "REQUEST" /\ e.level = "ERROR"
                 => t = "ApiError"
           /\ ~sqlRelated /\ ~bodyDump /\ e.msg # "REQUEST" /\ e.level # "ERROR"
                 => t = "ApiGeneral"
           /\ e.msg = "REQUEST" /\ e.sql # None
                 => t = IF failed THEN "ApiError" ELSE "ApiSql"

\* log_type was applied to a record with message "REQUEST" and an sql field
\* (no err, level not ERROR) and answered SQL query
C26_Witness ==
    /\ ret.op = "log_type"
    /\ ret.arg.msg = "REQUEST"
    /\ ret.arg.sql # None
    /\ ret.arg.err = None
    /\ ret.arg.level = "INFO"
    /\ ret.val = Some("ApiSql")

\* C27: parse_karate_line classifies a line, white space at its ends
\* removed, by the first rule that matches: "scenarios:", "passed:" and
\* "failed:" all present is a summary; "status code was:" and "expected:"
\* both present is a failure; a line that starts with "Scenario:" or
\* contains ".feature:" is a failure if it contains "failed" and a scenario
\* start otherwise; a line that starts with "features:" or "elapsed:" is a
\* summary; anything else is informational.  The category is a function of
\* the line.
C27_KarateLinePrecedence ==
    ret.op = "parse_karate_line" =>
        LET line == trim(ret.arg)
            t == Unwrap(ret.val)
            summary == contains(line, Label.scenarios) /\ contains(line, Label.passed)
                       /\ contains(line, Label.failed)
            failure == contains(line, Label.status_code_was) /\ contains(line, Label.expected)
            scenario == starts_with(line, Label.Scenario) \/ contains(line, Label.dot_feature)
            counts == starts_with(line, Label.features) \/ starts_with(line, Label.elapsed)
        IN /\ summary => t = "KarateSummary"
           /\ ~summary /\ failure => t = "KarateFailure"
           /\ ~summary /\ ~failure /\ scenario /\ contains(line, <<"failed">>)
                 => t = "KarateFailure"
           /\ ~summary /\ ~failure /\ scenario /\ ~contains(line, <<"failed">>)
                 => t = "KarateScenarioStart"
           /\ ~summary /\ ~failure /\ ~scenario /\ counts => t = "KarateSummary"
           /\ ~summary /\ ~failure /\ ~scenario /\ ~counts => t = "KarateInfo"

\* parse_karate_line was applied to a line that is a summary by the first
\* rule and a failure by the second, and answered summary
C27_Witness ==
    /\ ret.op = "parse_karate_line"
    /\ ret.arg = SummaryText \o <<" ">> \o FailureText(None)
    /\ ret.val = Some("KarateSummary")

\* the places of a line where an http(s) URL starts that follows the label
\* "url:", white space at most in between
UrlStarts(line) ==
    { q \in 1..Len(line) :
        /\ line[q] \in Origins
        /\ \E p \in 1..(q - 2) :
              /\ SubSeq(line, p, p + 1) = Label.url
              /\ \A k \in (p + 2)..(q - 1) : line[k] = " " }

\* the text from place q of a line up to the first white space or comma
UrlToken(line, q) ==
    LET stops == {r \in q..Len(line) : line[r] \in {" ", ","}}
    IN SubSeq(line, q, IF stops = {} THEN Len(line) ELSE MinOf(stops) - 1)

\* C29: extract_failure_url returns the http(s) URL that follows the label
\* "url:" in the line (the first one, if there are several), from its
\* scheme up to the first white space or comma, and nothing when no http(s)
\* URL follows a label "url:".
C29_FailureUrl ==
    ret.op = "extract_failure_url" =>
        IF UrlStarts(ret.arg) = {} THEN ret.val = None
        ELSE ret.val = Some(UrlToken(ret.arg, MinOf(UrlStarts(ret.arg))))

\* extract_failure_url was applied to "status code was: 200, expected: 400,
\* url: http://h/a, response:" and returned "http://h/a"
C29_Witness ==
    /\ ret.op = "extract_failure_url"
    /\ ret.arg = FailureText(Some(<<"http://h", "/", "a">>))
    /\ ret.val = Some(<<"http://h", "/", "a">>)

\* some pattern of the list matches the text of the record
AnyMatch(patterns, entry) ==
    \E i \in 1..Len(patterns) : is_match(patterns[i], searchable(entry))

\* C30: should_include_api is true exactly when the filter has no minimum
\* level or the level of the record (LogLevel::from_str of its level text)
\* is at least the minimum in the order Debug < Info < Warn < Error, and no
\* exclude pattern matches the text of the record, and the include list is
\* empty or one of its patterns matches; a record that an exclude pattern
\* matches is rejected even if an include pattern matches it too.
C30_ShouldIncludeApi ==
    ret.op = "should_include_api" =>
        LET filter == ret.arg[1]
            entry == ret.arg[2]
            rank == [l \in {"Debug", "Info", "Warn", "Error"} |->
                        IF l = "Debug" THEN 1 ELSE IF l = "Info" THEN 2
                        ELSE IF l = "Warn" THEN 3 ELSE 4]
            levelOk == \/ filter.level = None
                       \/ rank[LogLevel_from_str(entry.level)] >= rank[Unwrap(filter.level)]
        IN /\ Unwrap(ret.val) <=>
                 /\ levelOk
                 /\ ~AnyMatch(filter.exclude_patterns, entry)
                 /\ filter.include_patterns = <<>>
                       \/ AnyMatch(filter.include_patterns, entry)
           /\ AnyMatch(filter.exclude_patterns, entry) => ~Unwrap(ret.val)

\* should_include_api rejected a record of sufficient level that an include
\* pattern and an exclude pattern both match
C30_Witness ==
    /\ ret.op = "should_include_api"
    /\ ret.arg[1].level = Some("Warn")
    /\ ret.arg[2].level = "Warning"
    /\ AnyMatch(ret.arg[1].include_patterns, ret.arg[2])
    /\ AnyMatch(ret.arg[1].exclude_patterns, ret.arg[2])
    /\ ret.val = Some(FALSE)

\* C31: the classifier and the level parser agree on what error-level is:
\* a decoded record that is not SQL-related, is not a body dump and whose
\* message is not "REQUEST" is classified as an error whenever log_level()
\* gives Error for it (the level text compared without regard to case).
C31_ErrorLevelAgrees ==
    ret.op = "log_type" =>
        LET e == ret.arg
        IN /\ ~contains(msg_text(e.msg), <<"SQL">>)
           /\ e.sql = None
           /\ ~contains(msg_text(e.msg), <<"request / response body dump">>)
           /\ e.msg # "REQUEST"
           /\ log_level(e) = "Error"
           => ret.val = Some("ApiError")

\* ------------------------------------------------------------------------
\* Properties of the run as a whole

\* C32: in every terminal outcome of run after the service was spawned
\* (done, health check failed, runner could not be spawned) the service has
\* been sent a kill, and the service reader tasks that were started have
\* ended and been joined.
C32_KilledAndJoined ==
    pc \in {"done", "failed_health", "failed_runner_spawn"} =>
        /\ api.killed
        /\ apiTask.out = "unspawned" \/ ApiOutEnded
        /\ apiTask.err \in {"unspawned", "done"}

\* C33: once the health check has succeeded and the runner was started, a
\* runner that writes finitely many lines to its two pipes and exits lets
\* the run reach done: the runner is never left blocked on one pipe while
\* the orchestrator waits on the other.
C33_EventuallyDone == (pc = "karate_stdout") ~> (pc = "done")

\* the mutexes a task owns, and the mutex a task is suspended on in
\* lock().await
Holds(task) == { m \in DOMAIN locks : locks[m] = task }

Wants(task) ==
    IF task = "api_stdout"
    THEN (IF apiTask.out = "lock_sql" THEN {"sql_stats"}
          ELSE IF apiTask.out = "lock_corr" THEN {"correlator"} ELSE {})
    ELSE (IF pc = "k_lock_summary" THEN {"test_summary"}
          ELSE IF pc = "k_lock_corr" THEN {"correlator"} ELSE {})

\* C34: no task ever owns more than one of the three aggregator mutexes; a
\* task that waits for a mutex owns none, so the two readers never wait for
\* each other (and no task waits for a mutex it owns itself).
C34_AtMostOneMutex ==
    \A t \in {"api_stdout", "karate"} :
        /\ Cardinality(Holds(t)) <= 1
        /\ Wants(t) # {} => Holds(t) = {}
        /\ \A u \in {"api_stdout", "karate"} :
              ~(Wants(t) \subseteq Holds(u) /\ Wants(u) \subseteq Holds(t)
                /\ Wants(t) # {} /\ Wants(u) # {})

\* the service-stdout reader, which has held and released the sql_stats
\* mutex for this line, waits for the correlator while the runner-stdout
\* reader, which has held and released test_summary, owns it
C34_Witness ==
    /\ apiTask.out = "lock_corr"
    /\ Holds("karate") = {"correlator"}
    /\ Holds("api_stdout") = {}
    /\ sql_stats.total_queries >= 1
    /\ summary_calls # <<>>

IsPrefixOf(s, t) == Len(s) <= Len(t) /\ SubSeq(t, 1, Len(s)) = s

IsSliceOf(s, t) ==
    /\ Len(s) <= Len(t)
    /\ \E i \in 0..(Len(t) - Len(s)) : SubSeq(t, i + 1, i + Len(s)) = s

\* the records the last failure block displayed agree with the bucket b of
\* the identifier they were displayed under
Displayed(r, c) ==
    r.op = "correlate" /\ r.val # None =>
        LET request_id == Unwrap(r.val)[1]
            shown == Unwrap(r.val)[2]
        IN /\ request_id \in DOMAIN c.request_logs
           /\ \A i \in 1..Len(shown) : shown[i][2].request_id = Some(request_id)
           /\ IsSliceOf(shown, c.request_logs[request_id])

\* C35: under every interleaving of the two readers a failure-time lookup
\* runs while no record call is in progress, displays records of the one
\* identifier it resolved (the whole bucket for a URL lookup, its last records
\* for a last-N lookup), and every bucket only grows at its end afterwards:
\* what a URL lookup displayed stays a prefix, and what a last-N lookup
\* displayed stays a contiguous slice, of the bucket in every later state.
C35_LookupConsistent ==
    [][ /\ \A id \in DOMAIN correlator.request_logs :
              /\ id \in DOMAIN correlator'.request_logs
              /\ IsPrefixOf(correlator.request_logs[id], correlator'.request_logs[id])
        /\ Displayed(ret', correlator')
        /\ (pc = "k_corr" /\ pc' # "k_corr") =>
              /\ apiTask.out # "buffer"
              /\ locks.correlator = "karate"
              /\ correlator' = correlator
              /\ ret'.op = "correlate"
              /\ ret'.val # None =>
                    LET request_id == Unwrap(ret'.val)[1]
                        shown == Unwrap(ret'.val)[2]
                        by_url == /\ kLine.pending_failure_url # None
                                  /\ find_matching_logs_by_url(
                                         correlator, Unwrap(kLine.pending_failure_url)) # None
                    IN IF by_url
                       THEN shown = correlator.request_logs[request_id]
                       ELSE /\ request_id = Unwrap(correlator.last_request_id)
                            /\ \E k \in 0..Len(correlator.request_logs[request_id]) :
                                  shown = SubSeq(correlator.request_logs[request_id], k + 1,
                                                 Len(correlator.request_logs[request_id]))
      ]_vars

\* a lookup displayed the bucket of an identifier and the service-stdout
\* reader recorded a further line of that identifier afterwards
C35_Witness ==
    /\ ret.op = "correlate"
    /\ ret.val # None
    /\ Unwrap(ret.val)[1] \in DOMAIN correlator.request_logs
    /\ Len(Unwrap(ret.val)[2]) >= 1
    /\ Len(Unwrap(ret.val)[2]) < Len(correlator.request_logs[Unwrap(ret.val)[1]])

\* the largest position of seen_urls that holds the URI
LastSeen(c, uri) ==
    MaxOf({ i \in 1..Len(c.seen_urls) : c.seen_urls[i][1] = uri })

HasBucket(c, request_id) ==
    request_id \in DOMAIN c.request_logs /\ Len(c.request_logs[request_id]) >= 1

\* C36: in every reachable state of the RequestCorrelator, last_request_id,
\* when present, names a non-empty bucket; every identifier of the URL index
\* and of the seen-URL list names a non-empty bucket; the URL index has
\* exactly the URIs of the seen-URL list, each mapped to the identifier of the
\* most recent pair with that URI.
C36_CorrelatorInvariant ==
    /\ correlator.last_request_id # None =>
          HasBucket(correlator, Unwrap(correlator.last_request_id))
    /\ \A uri \in DOMAIN correlator.url_to_request_id :
          HasBucket(correlator, correlator.url_to_request_id[uri])
    /\ \A i \in 1..Len(correlator.seen_urls) :
          HasBucket(correlator, correlator.seen_urls[i][2])
    /\ DOMAIN correlator.url_to_request_id =
          { correlator.seen_urls[i][1] : i \in 1..Len(correlator.seen_urls) }
    /\ \A uri \in DOMAIN correlator.url_to_request_id :
          correlator.url_to_request_id[uri] =
             correlator.seen_urls[LastSeen(correlator, uri)][2]

\* one URI was registered by two identifiers: the index holds the later one,
\* which is also last_request_id, and both identifiers have their bucket
C36_Witness ==
    /\ \E i, j \in 1..Len(correlator.seen_urls) :
          /\ i < j
          /\ correlator.seen_urls[i][1] = correlator.seen_urls[j][1]
          /\ correlator.seen_urls[i][2] # correlator.seen_urls[j][2]
          /\ correlator.url_to_request_id[correlator.seen_urls[i][1]] = correlator.seen_urls[j][2]
          /\ correlator.last_request_id = Some(correlator.seen_urls[j][2])
          /\ HasBucket(correlator, correlator.seen_urls[i][2])

\* the sum of the values of a counter map
RECURSIVE SumOfValues(_)
SumOfValues(m) ==
    IF DOMAIN m = {} THEN 0
    ELSE LET k == CHOOSE x \in DOMAIN m : TRUE
         IN m[k] + SumOfValues([x \in DOMAIN m \ {k} |-> m[x]])

\* C37: in every reachable state of SqlStats total_queries is the sum of the
\* per-verb counters, error_count is at most total_queries, the slowest-query
\* set has min(5, total_queries) entries, and no tracked query outside the set
\* has a strictly greater elapsed time than a query in the set.
C37_SqlStatsInvariant ==
    LET S == sql_stats.slowest_queries
    IN /\ sql_stats.total_queries = SumOfValues(sql_stats.queries_by_type)
       /\ sql_stats.error_count <= sql_stats.total_queries
       /\ Len(S) = Min(SlowestKept, sql_stats.total_queries)
       /\ \A k \in 1..Len(tracked) :
             ~InSlowest(tracked[k].query) =>
                \A i \in 1..Len(S) :
                   partial_cmp(tracked[k].query.elapsed_ms, S[i].elapsed_ms) # Some("Greater")

\* C38: with failed-only mode disabled the service-stdout reader never calls
\* buffer_api_log: the correlator stays empty for the whole run and every
\* lookup at a failure line finds nothing; with failed-only mode enabled
\* every line of the service's stdout that decodes is recorded before the
\* reader lets go of it.
C38_FailedOnlySwitch ==
    /\ [](~cfg.failed_only =>
            /\ calls = <<>>
            /\ correlator = NewCorrelator
            /\ ret.op = "correlate" => ret.val = None)
    /\ [][ /\ cfg.failed_only
           /\ apiTask.line # None
           /\ apiTask'.line = None
           => LET line == Unwrap(apiTask.line)
              IN /\ ApiLogEntry_parse(line) # None
                 /\ calls' = Append(calls, <<line, Unwrap(ApiLogEntry_parse(line))>>)
                 /\ correlator' = buffer_api_log(correlator, line,
                                                 Unwrap(ApiLogEntry_parse(line))) ]_vars

\* ------------------------------------------------------------------------
\* Properties of the failure URL and of batch-marked lines (LoopSpec, where
\* kSeen keeps every line whole)

\* the line at position i of the runner's stdout is handled as a failure
FailureAt(i) == ~kSeen[i].batch /\ NeedsCorrelation(kSeen[i])

\* the URL the loop extracts from the line at position i (none from a
\* batch-marked line, which the loop only buffers)
UrlAt(i) == IF kSeen[i].batch THEN None ELSE extract_failure_url(kSeen[i].text)

\* the most recent URL extracted from the lines after the previous failure
\* line, up to and including the line at position n
UrlSincePreviousFailure(n) ==
    LET earlier == { i \in 1..(n - 1) : FailureAt(i) }
        prev == IF earlier = {} THEN 0 ELSE MaxOf(earlier)
        cand == { i \in (prev + 1)..n : UrlAt(i) # None }
    IN IF cand = {} THEN None ELSE UrlAt(MaxOf(cand))

C40_BatchLineOnlyBuffered ==
    [][ (Len(kSeen') = Len(kSeen) + 1 /\ kSeen'[Len(kSeen')].batch) =>
           /\ kLine' = [kLine EXCEPT
                           !.batch_buffer = Append(@, batch_item(kSeen'[Len(kSeen')]))]
           /\ pc = "karate_stdout" /\ pc' = "karate_stdout"
           /\ kLine'.line = None
           /\ test_summary' = test_summary
           /\ summary_calls' = summary_calls
           /\ ret' = ret
           /\ locks' = locks
           /\ correlator' = correlator
           /\ groups' = groups ]_vars

\* three batch-marked lines were read, with a summary text, a failure text
\* that carries a URL and a feature text: all are in the buffer and nothing
\* else has changed
C40_Witness ==
    /\ Len(kSeen) = 3
    /\ \A i \in 1..3 : kSeen[i].batch
    /\ parse_karate_line(kSeen[1].text) = "KarateSummary"
    /\ NeedsCorrelation(kSeen[2]) /\ extract_failure_url(kSeen[2].text) # None
    /\ track_current_feature(None, kSeen[3].text) # None
    /\ Len(kLine.batch_buffer) = 3
    /\ kLine.pending_failure_url = None /\ kLine.current_feature = None
    /\ test_summary = NewTestSummary /\ summary_calls = <<>>
    /\ ret = NoRet

====
